---- MODULE Spec2Model ----
(***************************************************************************)
(* State-machine model of the streaming analytics core:                    *)
(*   - storage/redis_client.py : CircuitBreaker, RedisClient               *)
(*   - processor/consumer.py   : StreamConsumer                            *)
(*   - processor/dead_letter.py: DeadLetterQueue                           *)
(*   - storage/time_series.py  : TimeSeriesWriter                          *)
(* Each component has its own next-state relation and specification; the   *)
(* variables of the other components are left unchanged by it.             *)
(***************************************************************************)
EXTENDS Integers, Sequences, FiniteSets, TLC

(***************************************************************************)
(* Bounds of the model.                                                    *)
(***************************************************************************)
\* The wall clock stops advancing at MaxTime (seconds).
MaxTime == 64
\* failure_count is not incremented beyond MaxFailures.
MaxFailures == 7
\* execute_with_retry is called with max_retries in 1..MaxRetries.
MaxRetries == 4
\* poll() returns at most MaxPollRecords records (kafka_max_poll_records).
MaxPollRecords == 2
\* Each partition's log holds the offsets 0..MaxOffset-1.
MaxOffset == 2
\* TimeSeriesWriter(pipeline_batch=...): the batch size of the writer modelled.
pipeline_batch == 3
\* Record timestamps (epoch milliseconds, positive) are 1..MaxTimestamp.
MaxTimestamp == 2
\* Floats carry MantissaBits significant bits.
MantissaBits == 3
\* WindowedAggregator.add is called at most MaxSamples times.
MaxSamples == 3
\* The aggregator's wall clock stops advancing at MaxWall (seconds).
MaxWall == 61
\* The manager's clock stops advancing at MaxWsTime (milliseconds).
MaxWsTime == 1200
\* ZScoreDetector(window_size=...): the ring size of the detector modelled.
window_size == 18
\* A ring holds at most MaxOutliers values other than the baseline 0.
MaxOutliers == 2
\* TrendAnalyzer.add is called at most MaxTrendPoints times per key.
MaxTrendPoints == 21
\* The floats of the trend regression: significant bits, and the binary
\* digits after the point of the smallest spacing.
TrendMantissaBits == 5
TrendFractionBits == 6
\* The flush loop is followed for MaxTicks ticks.
MaxTicks == 4
\* push_alert is called at most MaxPushes times,
MaxPushes == 102
\* and at most MaxPushFailures attempts of them fail.
MaxPushFailures == 1
\* The sorted set read holds at most MaxStored members, with scores
\* 1..MaxScore; get_range is called with max_points in 1..MaxPointsArg.
MaxStored == 5
MaxScore == 2
MaxPointsArg == 3
\* write() is called at most MaxWrites times on the shared writer.
MaxWrites == 3
\* The subscribers make at most MaxRequests requests and pubsub.listen()
\* yields at most MaxBridgeMessages messages.
MaxRequests == 3
MaxBridgeMessages == 2

(***************************************************************************)
(* Program constants.                                                      *)
(***************************************************************************)
\* RedisClient.__init__: CircuitBreaker(failure_threshold=5, recovery_timeout=30)
failure_threshold == 5
recovery_timeout == 30
\* execute_with_retry(func, max_retries: int = 3)
default_max_retries == 3
\* TimeSeriesWriter(..., retention_ms: int = 86_400_000)
retention_ms == 86400000
\* WindowedAggregator(..., sliding_sec: int = 60)
sliding_sec == 60
\* WebSocketManager(throttle_ms: int = 100)
throttle_ms == 100
\* ZScoreDetector.MIN_WINDOW_SIZE
MIN_WINDOW_SIZE == 10
\* Settings.anomaly_z_threshold (3.0) and the bound of a warning (4.0)
z_threshold == 3
critical_z == 4
\* TrendAnalyzer.MIN_POINTS
MIN_POINTS == 20
\* Settings.tumbling_window_sec
tumbling_window_sec == 10
\* MetricsCache.MAX_ALERTS
MAX_ALERTS == 100

VARIABLES
    \* ---- storage/redis_client.py ----
    circuit,        \* RedisClient._circuit: [state, failure_count, last_failure_time]
    now,            \* time.time(), in seconds
    rpc,            \* position of the caller inside execute_with_retry
    attempt,        \* loop variable of `for attempt in range(max_retries)`
    max_retries,    \* argument of the call in progress
    last_error,     \* local last_error
    \* observations of the call in progress / last finished
    call,           \* see InitCall
    \* ---- processor/consumer.py, processor/dead_letter.py ----
    running,        \* StreamConsumer._running
    cpc,            \* position of run(): "loop", "handle", "commit", "cleanup", "done"
    batch,          \* the polled batch, in the order run() iterates it
    idx,            \* index in batch of the next message to handle
    processed,      \* StreamConsumer._processed
    errors,         \* StreamConsumer._errors
    next_offset,    \* the bus consumer's fetch position per partition
    dlq_topic,      \* the envelopes sent to the DLQ topic, in order
    exit_cause,     \* "none", "stop", or the exception that ended run()
    close_log,      \* the close() calls of _cleanup, in order
    obs,            \* observations of the consumer, see InitObs
    \* ---- storage/time_series.py ----
    pending,        \* TimeSeriesWriter._pending
    wobs,           \* observations of the writer's last operation, see InitWobs
    \* ---- processor/aggregator.py ----
    tumbling,       \* WindowedAggregator._tumbling: key -> TumblingWindow.values
    start_time,     \* key -> TumblingWindow.start_time, in seconds
    sliding,        \* WindowedAggregator._sliding: key -> SlidingWindow.entries
    wall,           \* time.time() as the aggregator reads it, in seconds
    fiter,          \* the flush_tumbling() call in progress, see InitFiter
    aobs,           \* observations of the aggregator, see InitAobs
    \* ---- storage/redis_client.py, two threads on one client ----
    tpc,            \* thread -> position inside execute_with_retry
    tloc,           \* thread -> its locals (attempt, the failure_count it loaded)
    tobs,           \* observations of the shared breaker, see InitTobs
    \* ---- api/ws_manager.py ----
    connections,    \* WebSocketManager._connections: websocket -> ConnectionState
    ws_now,         \* time.time() as the manager reads it, in milliseconds
    wsobs,          \* observations of the last broadcast, see InitWsobs
    \* ---- processor/main.py ----
    ppc,            \* position of StreamProcessor.run(): "consumer", "stopped",
                    \* or the exception that left its finally block
    flush_running,  \* StreamProcessor._flush_running
    shutdown_log,   \* the steps of run()'s finally block, in order
    \* ---- processor/main.py, _process_iot ----
    iobs,           \* observations of the last _process_iot call, see InitIobs
    \* ---- storage/cache.py, push_alert ----
    alerts,         \* the list stored at alerts:anomalies, head first
    alobs,          \* observations of the pushes, see InitAlobs
    \* ---- processor/main.py, _flush_loop ----
    fpc,            \* position of the flush thread: "test", "sleep", "tick", "ended"
    fobs,           \* observations of the flush loop, see InitFobs
    \* ---- processor/anomaly.py ----
    windows,        \* ZScoreDetector._windows: key -> the ring of recent values
    zobs,           \* observations of the last check(), see InitZobs
    \* ---- processor/trend.py ----
    buffers,        \* TrendAnalyzer._windows: key -> the buffer of (timestamp, value) points
    trobs,          \* observations of the last get_trend(), see InitTrobs
    \* ---- storage/time_series.py, TimeSeriesReader ----
    series,         \* the sorted set at ts:<key>: member -> score
    robs,           \* observations of the last get_range(), see InitRobs
    \* ---- storage/time_series.py, one writer used by two threads ----
    wpc,            \* thread -> position inside write() / flush()
    wloc,           \* thread -> the locals of its flush(): iterator index and pipeline
    wtobs,          \* observations of the shared writer, see InitWtobs
    \* ---- processor/main.py, StreamProcessor._flush_windows step by step ----
    tick_pc,        \* the flush thread's position inside _flush_windows()
    tick,           \* its local tumbling_results and observations, see InitTick
    \* ---- api/main.py, api/routers/websocket.py: the API's event loop ----
    loop_task,      \* the coroutine the event loop's thread is executing ("none": the loop is free)
    bridge_pc,      \* the position of PubSubListener.run
    requests,       \* the subscribers' requests that have arrived and wait for the loop
    lobs            \* observations of the loop, see InitLoop

breakerVars == <<circuit, now, rpc, attempt, max_retries, last_error, call>>

consumerVars == <<running, cpc, batch, idx, processed, errors, next_offset,
                  dlq_topic, exit_cause, close_log, obs>>

writerVars == <<pending, wobs>>

aggVars == <<tumbling, start_time, sliding, wall, fiter, aobs>>

threadVars == <<tpc, tloc, tobs>>

wsVars == <<connections, ws_now, wsobs>>

procVars == <<ppc, flush_running, shutdown_log>>

iotVars == <<iobs>>

alertVars == <<alerts, alobs>>

flushVars == <<fpc, fobs>>

anomalyVars == <<windows, zobs>>

trendVars == <<buffers, trobs>>

readerVars == <<series, robs>>

wthreadVars == <<wpc, wloc, wtobs>>

tickVars == <<tick_pc, tick>>

loopVars == <<loop_task, bridge_pc, requests, lobs>>

vars == <<circuit, now, rpc, attempt, max_retries, last_error, call,
          running, cpc, batch, idx, processed, errors, next_offset,
          dlq_topic, exit_cause, close_log, obs,
          pending, wobs,
          tumbling, start_time, sliding, wall, fiter, aobs,
          tpc, tloc, tobs,
          connections, ws_now, wsobs,
          ppc, flush_running, shutdown_log,
          iobs,
          alerts, alobs,
          fpc, fobs,
          windows, zobs,
          buffers, trobs,
          series, robs,
          wpc, wloc, wtobs,
          tick_pc, tick,
          loop_task, bridge_pc, requests, lobs>>

None == "None"

(***************************************************************************)
(* storage/redis_client.py : CircuitBreaker                                *)
(***************************************************************************)
BreakerStates == {"closed", "open", "half_open"}

\* CircuitBreaker.__init__
NewCircuitBreaker ==
    [state |-> "closed", failure_count |-> 0, last_failure_time |-> 0]

\* Mutant: the open breaker is moved to half_open before the timeout is tested.
can_execute_flip_first(cb, t) ==
    IF cb.state = "closed" THEN [ret |-> TRUE, cb |-> cb]
    ELSE IF cb.state = "open"
         THEN [ret |-> t - cb.last_failure_time > recovery_timeout,
               cb |-> [cb EXCEPT !.state = "half_open"]]
         ELSE [ret |-> TRUE, cb |-> cb]

\* CircuitBreaker.can_execute at clock t: the value returned and the breaker after.
can_execute(cb, t) ==
    IF cb.state = "closed" THEN [ret |-> TRUE, cb |-> cb]
    ELSE IF cb.state = "open"
         THEN IF t - cb.last_failure_time > recovery_timeout
              THEN [ret |-> TRUE, cb |-> [cb EXCEPT !.state = "half_open"]]
              ELSE [ret |-> FALSE, cb |-> cb]
         ELSE [ret |-> TRUE, cb |-> cb]

\* Mutant: record_success closes the breaker and keeps the count.
record_success_keep_count(cb) ==
    [cb EXCEPT !.state = "closed"]

\* Mutant: record_success resets the count and leaves the state.
record_success_count_only(cb) ==
    [cb EXCEPT !.failure_count = 0]

\* CircuitBreaker.record_success
record_success(cb) ==
    [cb EXCEPT !.failure_count = 0, !.state = "closed"]

\* Mutant: the breaker opens only above the threshold.
record_failure_strict(cb, t) ==
    LET n == cb.failure_count + 1 IN
    [state |-> IF n > failure_threshold THEN "open" ELSE cb.state,
     failure_count |-> n,
     last_failure_time |-> t]

\* CircuitBreaker.record_failure at clock t
record_failure(cb, t) ==
    LET n == cb.failure_count + 1 IN
    [state |-> IF n >= failure_threshold THEN "open" ELSE cb.state,
     failure_count |-> n,
     last_failure_time |-> t]

(***************************************************************************)
(* storage/redis_client.py : RedisClient.execute_with_retry                *)
(***************************************************************************)
\* What one invocation of func(self.get_client()) can do.
OpOutcomes == {"ok", "ConnectionError", "TimeoutError", "ResponseError"}

\* Mutant: a bare `except Exception`.
IsConnectionFailure_any(e) == e # "ok"

\* except (redis.ConnectionError, redis.TimeoutError)
IsConnectionFailure(e) == e \in {"ConnectionError", "TimeoutError"}

\* Mutant: linear instead of exponential back-off.
backoff_linear(a) == a + 1

\* backoff = 0.1 * (2 ** attempt), in tenths of a second
backoff(a) == 2 ^ a

Fields(cb) == <<cb.state, cb.failure_count, cb.last_failure_time>>

\* Observations of one execute_with_retry call (history, not program state):
\*   consec      record_failure calls since the last record_success (kept across calls)
\*   can         the last can_execute(): ret, whether the timeout had elapsed,
\*               whether consec had reached the threshold, the state it left
\*   at_call     the breaker fields when the call was made
\*   at_attempt  the breaker fields when the last attempt started
\*   op_calls    invocations of func in this call
\*   sleeps      the time.sleep() arguments of this call, in tenths of a second
\*   recorded    record_failure calls in this call
\*   conn_failed attempts of this call that raised a connection/timeout error
\*   failed      attempts of this call that raised anything
\*   succeeded   record_success calls in this call
\*   attempts    the outcome of every attempt of this call, in order
\*   result      "pending", "returned", or the exception the call raised
InitCall ==
    [consec |-> 0,
     can |-> [called |-> FALSE, ret |-> TRUE, pre_state |-> "closed",
              elapsed |-> FALSE, tripped |-> FALSE, post_state |-> "closed"],
     at_call |-> Fields(NewCircuitBreaker),
     at_attempt |-> Fields(NewCircuitBreaker),
     op_calls |-> 0, sleeps |-> <<>>, recorded |-> 0, conn_failed |-> 0,
     failed |-> 0, succeeded |-> 0, attempts |-> <<>>, result |-> None]

InitBreaker ==
    /\ circuit = NewCircuitBreaker
    /\ now = 0
    /\ rpc = "idle"
    /\ attempt = 0
    /\ max_retries = default_max_retries
    /\ last_error = None
    /\ call = InitCall

\* time.time() advances; two half-timeouts land exactly on the recovery boundary.
TickSteps == {recovery_timeout \div 2, recovery_timeout \div 2 + 1}

Tick ==
    /\ \E d \in TickSteps :
         /\ now + d <= MaxTime
         /\ now' = now + d
    /\ UNCHANGED <<circuit, rpc, attempt, max_retries, last_error, call>>

\* execute_with_retry, lines 76-79: the breaker check and the loop set-up.
ExecuteWithRetry_enter(n) ==
    LET c == can_execute(circuit, now) IN
    /\ rpc = "idle"
    /\ circuit' = c.cb
    /\ max_retries' = n
    /\ attempt' = 0
    /\ last_error' = None
    /\ rpc' = IF c.ret THEN "attempt" ELSE "idle"
    /\ call' = [consec |-> call.consec,
                can |-> [called |-> TRUE,
                         ret |-> c.ret,
                         pre_state |-> circuit.state,
                         elapsed |-> now - circuit.last_failure_time > recovery_timeout,
                         tripped |-> call.consec >= failure_threshold,
                         post_state |-> c.cb.state],
                at_call |-> Fields(circuit),
                at_attempt |-> Fields(c.cb),
                op_calls |-> 0, sleeps |-> <<>>, recorded |-> 0, conn_failed |-> 0,
                failed |-> 0, succeeded |-> 0, attempts |-> <<>>,
                result |-> IF c.ret THEN "pending" ELSE "CircuitOpenError"]
    /\ UNCHANGED now

Call == \E n \in 1..MaxRetries : ExecuteWithRetry_enter(n)

\* One iteration of the retry loop, lines 80-96, up to the sleep; o is what func did.
ExecuteWithRetry_attempt(o) ==
    /\ rpc = "attempt"
    /\ IsConnectionFailure(o) => circuit.failure_count < MaxFailures
    /\ LET seen == [call EXCEPT !.at_attempt = Fields(circuit),
                                !.op_calls = @ + 1,
                                !.attempts = Append(@, o),
                                !.failed = IF o = "ok" THEN @ ELSE @ + 1] IN
       IF o = "ok"
       THEN /\ circuit' = record_success(circuit)
            /\ call' = [seen EXCEPT !.consec = 0, !.succeeded = @ + 1,
                                    !.result = "returned"]
            /\ rpc' = "idle"
            /\ UNCHANGED last_error
       ELSE IF IsConnectionFailure(o)
       THEN /\ last_error' = o
            /\ circuit' = record_failure(circuit, now)
            /\ IF attempt < max_retries - 1
               THEN /\ rpc' = "sleep"
                    /\ call' = [seen EXCEPT !.consec = @ + 1, !.recorded = @ + 1,
                                            !.conn_failed = @ + 1]
               ELSE \* the loop is exhausted: raise last_error
                    /\ rpc' = "idle"
                    /\ call' = [seen EXCEPT !.consec = @ + 1, !.recorded = @ + 1,
                                            !.conn_failed = @ + 1, !.result = o]
       ELSE \* not caught by the except clause: propagates to the caller
            /\ rpc' = "idle"
            /\ call' = [seen EXCEPT !.result = o]
            /\ UNCHANGED <<circuit, last_error>>
    /\ UNCHANGED <<now, attempt, max_retries>>

Attempt == \E o \in OpOutcomes : ExecuteWithRetry_attempt(o)

\* time.sleep(backoff), line 96, and the next iteration of the for loop.
ExecuteWithRetry_sleep ==
    /\ rpc = "sleep"
    /\ call' = [call EXCEPT !.sleeps = Append(@, backoff(attempt))]
    /\ attempt' = attempt + 1
    /\ rpc' = "attempt"
    /\ UNCHANGED <<circuit, now, max_retries, last_error>>

BreakerNext ==
    \/ Tick /\ UNCHANGED <<consumerVars, writerVars, aggVars, threadVars, wsVars, procVars, iotVars, alertVars, flushVars, anomalyVars, trendVars, readerVars, wthreadVars, tickVars, loopVars>>
    \/ Call /\ UNCHANGED <<consumerVars, writerVars, aggVars, threadVars, wsVars, procVars, iotVars, alertVars, flushVars, anomalyVars, trendVars, readerVars, wthreadVars, tickVars, loopVars>>
    \/ Attempt /\ UNCHANGED <<consumerVars, writerVars, aggVars, threadVars, wsVars, procVars, iotVars, alertVars, flushVars, anomalyVars, trendVars, readerVars, wthreadVars, tickVars, loopVars>>
    \/ ExecuteWithRetry_sleep /\ UNCHANGED <<consumerVars, writerVars, aggVars, threadVars, wsVars, procVars, iotVars, alertVars, flushVars, anomalyVars, trendVars, readerVars, wthreadVars, tickVars, loopVars>>

(***************************************************************************)
(* storage/redis_client.py : CircuitBreaker, its three methods called in   *)
(* any order by one thread.                                                *)
(***************************************************************************)
CanExecute ==
    /\ circuit' = can_execute(circuit, now).cb
    /\ UNCHANGED <<now, rpc, attempt, max_retries, last_error, call>>

RecordSuccess ==
    /\ circuit' = record_success(circuit)
    /\ UNCHANGED <<now, rpc, attempt, max_retries, last_error, call>>

RecordFailure ==
    /\ circuit.failure_count < MaxFailures
    /\ circuit' = record_failure(circuit, now)
    /\ UNCHANGED <<now, rpc, attempt, max_retries, last_error, call>>

BreakerMethodsNext ==
    \/ Tick /\ UNCHANGED <<consumerVars, writerVars, aggVars, threadVars, wsVars, procVars, iotVars, alertVars, flushVars, anomalyVars, trendVars, readerVars, wthreadVars, tickVars, loopVars>>
    \/ CanExecute /\ UNCHANGED <<consumerVars, writerVars, aggVars, threadVars, wsVars, procVars, iotVars, alertVars, flushVars, anomalyVars, trendVars, readerVars, wthreadVars, tickVars, loopVars>>
    \/ RecordSuccess /\ UNCHANGED <<consumerVars, writerVars, aggVars, threadVars, wsVars, procVars, iotVars, alertVars, flushVars, anomalyVars, trendVars, readerVars, wthreadVars, tickVars, loopVars>>
    \/ RecordFailure /\ UNCHANGED <<consumerVars, writerVars, aggVars, threadVars, wsVars, procVars, iotVars, alertVars, flushVars, anomalyVars, trendVars, readerVars, wthreadVars, tickVars, loopVars>>

(***************************************************************************)
(* The message bus as the consumer sees it.                                *)
(***************************************************************************)
\* The subscribed topics (settings.topic_iot_raw, settings.topic_activity_raw),
\* one partition of each.
TPs == {[topic |-> "iot.sensors.raw", partition |-> 0],
        [topic |-> "activity.events.raw", partition |-> 1]}

\* Record keys on the wire: absent, the UTF-8 text "k", and a byte that is not UTF-8.
KeyBytes == {<<>>, <<107>>, <<255>>}

\* Record values on the wire (MessagePack): the empty map {}, the one-byte
\* binary b"\xab", and the reserved byte 0xc1 that no MessagePack value starts with.
RawMap == <<128>>
RawBin == <<196, 1, 171>>
RawBroken == <<193>>
RawValues == {RawMap, RawBin, RawBroken}

\* value_deserializer = lambda m: msgpack.unpackb(m, raw=False): a fixmap
\* (0x80-0x8f) gives a dict, bin8 (0xc4, length, payload) gives bytes,
\* anything else here does not unpack.
unpackb(m) ==
    IF m[1] \in 128..143 THEN [kind |-> "dict", bytes |-> <<>>]
    ELSE IF m[1] = 196 /\ Len(m) = 2 + m[2]
         THEN [kind |-> "bytes", bytes |-> SubSeq(m, 3, 2 + m[2])]
         ELSE [kind |-> "error", bytes |-> <<>>]

\* bytes.decode("utf-8") of a key made of single bytes: bytes >= 0x80 alone are invalid.
Utf8Decodes(k) == \A i \in 1..Len(k) : k[i] < 128

\* bytes.hex(): two lowercase hexadecimal digits per byte.
HexDigit == <<"0", "1", "2", "3", "4", "5", "6", "7",
              "8", "9", "a", "b", "c", "d", "e", "f">>

RECURSIVE hex(_)
hex(bs) ==
    IF bs = <<>> THEN <<>>
    ELSE <<HexDigit[(bs[1] \div 16) + 1], HexDigit[(bs[1] % 16) + 1]>>
             \o hex(Tail(bs))

\* The records a poll can fetch: per partition consecutive offsets from the
\* fetch position, the partitions one after the other.
BatchShapes ==
    UNION {{s \in [1..n -> TPs] :
               \A i, j, k \in 1..n : (i < j /\ j < k /\ s[i] = s[k]) => s[j] = s[i]}
           : n \in 0..MaxPollRecords}

OffsetIn(s, i) == next_offset[s[i]] + Cardinality({j \in 1..(i - 1) : s[j] = s[i]})

Fetchable ==
    UNION {{[i \in 1..Len(s) |->
               [topic |-> s[i].topic, partition |-> s[i].partition,
                offset |-> OffsetIn(s, i), key |-> c[i][1], raw |-> c[i][2],
                value |-> unpackb(c[i][2])]]
            : c \in [1..Len(s) -> KeyBytes \X RawValues]}
           : s \in {t \in BatchShapes : \A i \in 1..Len(t) : OffsetIn(t, i) < MaxOffset}}

MsgId(m) == <<m.topic, m.partition, m.offset>>

(***************************************************************************)
(* processor/dead_letter.py : DeadLetterQueue.send                         *)
(***************************************************************************)
\* original_value=msg.value if isinstance(msg.value, bytes) else None
original_value_of(m) ==
    IF m.value.kind = "bytes" THEN m.value.bytes ELSE None

\* The envelope of DeadLetterQueue.send (error_message, stack_trace and
\* failed_at are left out).
envelope(original_value, error, source_topic, source_partition, source_offset) ==
    [original_topic |-> source_topic,
     original_partition |-> source_partition,
     original_offset |-> source_offset,
     error_type |-> error,
     original_value_b64 |->
         IF original_value # None /\ original_value # <<>>
         THEN hex(original_value) ELSE None]

\* What self._producer.send can do.
SendOutcomes == {"ok", "KafkaTimeoutError"}

(***************************************************************************)
(* processor/consumer.py : StreamConsumer                                  *)
(***************************************************************************)
\* What the handler (StreamProcessor.process_message) can do with a value:
\* it indexes the value as a dict, which raises TypeError on bytes; on a dict
\* it succeeds or raises (a missing field, a storage error).
HandlerOutcomes(value) ==
    IF value.kind = "bytes" THEN {"TypeError"} ELSE {"ok", "KeyError"}

CommitOutcomes == {"ok", "CommitFailedError"}

\* _commit: an exception of self._consumer.commit() is logged, never raised.
commit_raises(o) == FALSE

\* Observations of the consumer (history, not program state):
\*   handled     the handler invocations of the current batch, in order
\*   failures    the messages whose decoding or handler failed, with the
\*               exception and whether the DLQ send for it was made and raised
\*   commits     commit() calls since the current batch was polled
InitObs ==
    [handled |-> <<>>, failures |-> {}, commits |-> 0]

\* StreamConsumer.__init__
InitConsumer ==
    /\ running = TRUE
    /\ cpc = "loop"
    /\ batch = <<>>
    /\ idx = 1
    /\ processed = 0
    /\ errors = 0
    /\ next_offset = [tp \in TPs |-> 0]
    /\ dlq_topic = <<>>
    /\ exit_cause = "none"
    /\ close_log = <<>>
    /\ obs = InitObs

\* _shutdown(signum, frame): the SIGTERM/SIGINT handler.
Shutdown ==
    /\ running
    /\ cpc # "done"
    /\ running' = FALSE
    /\ UNCHANGED <<cpc, batch, idx, processed, errors, next_offset, dlq_topic,
                   exit_cause, close_log, obs>>

\* `while self._running` is false: leave the loop for the finally block.
LoopExit ==
    /\ cpc = "loop"
    /\ ~running
    /\ cpc' = "cleanup"
    /\ exit_cause' = "stop"
    /\ UNCHANGED <<running, batch, idx, processed, errors, next_offset, dlq_topic,
                   close_log, obs>>

\* batch = self._consumer.poll(timeout_ms=1000); `if not batch: continue`.
\* The value_deserializer runs inside poll(): a record that does not unpack
\* makes poll() raise, outside the try of the message loop.
Poll ==
    /\ cpc = "loop"
    /\ running
    /\ \E b \in Fetchable :
         IF \E i \in 1..Len(b) : b[i].value.kind = "error"
         THEN LET i == CHOOSE i \in 1..Len(b) :
                          /\ b[i].value.kind = "error"
                          /\ \A j \in 1..(i - 1) : b[j].value.kind # "error" IN
              /\ cpc' = "cleanup"
              /\ exit_cause' = "UnpackException"
              /\ obs' = [obs EXCEPT !.failures = @ \cup
                            {[id |-> MsgId(b[i]), raw |-> b[i].raw, stage |-> "value",
                              error |-> "UnpackException", send |-> "none"]}]
              /\ UNCHANGED <<batch, idx, next_offset>>
         ELSE IF b = <<>>
         THEN UNCHANGED <<cpc, exit_cause, obs, batch, idx, next_offset>>
         ELSE /\ batch' = b
              /\ idx' = 1
              /\ next_offset' =
                    [tp \in TPs |->
                        next_offset[tp] + Cardinality({i \in 1..Len(b) :
                            b[i].topic = tp.topic /\ b[i].partition = tp.partition})]
              /\ cpc' = "handle"
              /\ obs' = [obs EXCEPT !.handled = <<>>, !.commits = 0]
              /\ UNCHANGED exit_cause
    /\ UNCHANGED <<running, processed, errors, dlq_topic, close_log>>

\* The body of `for msg in messages` for one message, lines 60-79: e is what
\* the try block did ("ok" or the exception), d what the DLQ producer's send did.
HandleMessage(e, d) ==
    LET msg == batch[idx]
        invoked == Utf8Decodes(msg.key)
        more == idx < Len(batch) IN
    /\ cpc = "handle"
    /\ IF invoked THEN e \in HandlerOutcomes(msg.value) ELSE e = "UnicodeDecodeError"
    /\ e = "ok" => d = "ok"
    /\ idx' = idx + 1
    /\ IF e = "ok"
       THEN /\ processed' = processed + 1
            /\ cpc' = IF more THEN "handle" ELSE "commit"
            /\ obs' = [obs EXCEPT !.handled = Append(@, MsgId(msg))]
            /\ UNCHANGED <<errors, dlq_topic, exit_cause>>
       ELSE /\ errors' = errors + 1
            /\ obs' = [obs EXCEPT
                          !.handled = IF invoked THEN Append(@, MsgId(msg)) ELSE @,
                          !.failures = @ \cup
                              {[id |-> MsgId(msg), raw |-> msg.raw,
                                stage |-> IF invoked THEN "handler" ELSE "key",
                                error |-> e, send |-> d]}]
            /\ IF d = "ok"
               THEN /\ dlq_topic' = Append(dlq_topic,
                            envelope(original_value_of(msg), e, msg.topic,
                                     msg.partition, msg.offset))
                    /\ cpc' = IF more THEN "handle" ELSE "commit"
                    /\ UNCHANGED exit_cause
               ELSE \* send raised inside the except block: nothing catches it
                    /\ cpc' = "cleanup"
                    /\ exit_cause' = d
                    /\ UNCHANGED dlq_topic
            /\ UNCHANGED processed
    /\ UNCHANGED <<running, batch, next_offset, close_log>>

Handle ==
    \E e \in {"ok", "KeyError", "TypeError", "UnicodeDecodeError"}, d \in SendOutcomes :
        HandleMessage(e, d)

\* self._commit() after the batch, line 82, and back to the loop test.
Commit ==
    /\ cpc = "commit"
    /\ \E o \in CommitOutcomes :
         /\ obs' = [obs EXCEPT !.commits = @ + 1]
         /\ IF commit_raises(o)
            THEN cpc' = "cleanup" /\ exit_cause' = o
            ELSE cpc' = "loop" /\ UNCHANGED exit_cause
    /\ UNCHANGED <<running, batch, idx, processed, errors, next_offset, dlq_topic,
                   close_log>>

\* Mutant: _cleanup closes the DLQ producer first.
Cleanup_dlq_first ==
    /\ cpc = "cleanup"
    /\ close_log' = <<"dlq.close", "consumer.close">>
    /\ cpc' = "done"
    /\ UNCHANGED <<running, batch, idx, processed, errors, next_offset, dlq_topic,
                   exit_cause, obs>>

\* _cleanup, in the finally block of run().
Cleanup ==
    /\ cpc = "cleanup"
    /\ close_log' = <<"consumer.close", "dlq.close">>
    /\ cpc' = "done"
    /\ UNCHANGED <<running, batch, idx, processed, errors, next_offset, dlq_topic,
                   exit_cause, obs>>

ConsumerNext ==
    \/ Shutdown /\ UNCHANGED <<breakerVars, writerVars, aggVars, threadVars, wsVars, procVars, iotVars, alertVars, flushVars, anomalyVars, trendVars, readerVars, wthreadVars, tickVars, loopVars>>
    \/ LoopExit /\ UNCHANGED <<breakerVars, writerVars, aggVars, threadVars, wsVars, procVars, iotVars, alertVars, flushVars, anomalyVars, trendVars, readerVars, wthreadVars, tickVars, loopVars>>
    \/ Poll /\ UNCHANGED <<breakerVars, writerVars, aggVars, threadVars, wsVars, procVars, iotVars, alertVars, flushVars, anomalyVars, trendVars, readerVars, wthreadVars, tickVars, loopVars>>
    \/ Handle /\ UNCHANGED <<breakerVars, writerVars, aggVars, threadVars, wsVars, procVars, iotVars, alertVars, flushVars, anomalyVars, trendVars, readerVars, wthreadVars, tickVars, loopVars>>
    \/ Commit /\ UNCHANGED <<breakerVars, writerVars, aggVars, threadVars, wsVars, procVars, iotVars, alertVars, flushVars, anomalyVars, trendVars, readerVars, wthreadVars, tickVars, loopVars>>
    \/ Cleanup /\ UNCHANGED <<breakerVars, writerVars, aggVars, threadVars, wsVars, procVars, iotVars, alertVars, flushVars, anomalyVars, trendVars, readerVars, wthreadVars, tickVars, loopVars>>

\* The steps run() takes by itself (the stop signal comes from outside).
ConsumerRun == LoopExit \/ Poll \/ Handle \/ Commit \/ Cleanup

(***************************************************************************)
(* storage/time_series.py : TimeSeriesWriter                               *)
(***************************************************************************)
\* The aggregation keys, payloads and timestamps written.
WriterKeys == {"iot:temperature:d1", "activity:click"}
WriterData == {"r1", "r2"}
Timestamps == 1..MaxTimestamp

\* ts_key = f"ts:{key}"
ts_key(key) == <<"ts:", key>>

\* payload = json.dumps(data)
json_dumps(data) == <<"json", data>>

\* pipe.zadd(ts_key, {payload: timestamp})
zadd(key, payload, score) ==
    [cmd |-> "ZADD", key |-> key, member |-> payload, score |-> score]

\* pipe.zremrangebyscore(ts_key, "-inf", cutoff)
zremrangebyscore(key, cutoff) ==
    [cmd |-> "ZREMRANGEBYSCORE", key |-> key, member |-> "-inf", score |-> cutoff]

\* The first loop of flush(), lines 34-38: the ZADD commands queued ...
RECURSIVE flush_zadds(_)
flush_zadds(p) ==
    IF p = <<>> THEN <<>>
    ELSE <<zadd(ts_key(p[1].key), json_dumps(p[1].data), p[1].timestamp)>>
             \o flush_zadds(Tail(p))

\* Mutant: now_ms is the timestamp of the last record, not the largest.
RECURSIVE flush_now_ms_last(_, _)
flush_now_ms_last(p, now_ms) ==
    IF p = <<>> THEN now_ms ELSE flush_now_ms_last(Tail(p), p[1].timestamp)

\* ... and now_ms = max(now_ms, timestamp), started from now_ms = 0.0.
RECURSIVE flush_now_ms(_, _)
flush_now_ms(p, now_ms) ==
    IF p = <<>> THEN now_ms
    ELSE flush_now_ms(Tail(p), IF p[1].timestamp > now_ms THEN p[1].timestamp
                               ELSE now_ms)

\* The second loop of flush(), lines 41-47: one trim per ts_key not yet in
\* trimmed_keys.
RECURSIVE flush_trims(_, _, _)
flush_trims(p, trimmed_keys, cutoff) ==
    IF p = <<>> THEN <<>>
    ELSE IF ts_key(p[1].key) \in trimmed_keys
         THEN flush_trims(Tail(p), trimmed_keys, cutoff)
         ELSE <<zremrangebyscore(ts_key(p[1].key), cutoff)>>
                  \o flush_trims(Tail(p), trimmed_keys \cup {ts_key(p[1].key)}, cutoff)

\* The commands flush() queues on its pipeline for the pending list p.
flush_pipeline(p) ==
    flush_zadds(p) \o flush_trims(p, {}, flush_now_ms(p, 0) - retention_ms)

\* What pipe.execute() can do.
ExecuteOutcomes == {"ok", "ConnectionError"}

\* Mutant: the pending list is cleared whether execute() raised or not.
flush_clear_always(p, x) ==
    IF p = <<>>
    THEN [pending |-> p,
          wobs |-> [flushed |-> TRUE, returned |-> TRUE, before |-> p,
                    pipe |-> <<>>, executes |-> 0]]
    ELSE [pending |-> <<>>,
          wobs |-> [flushed |-> TRUE, returned |-> x = "ok", before |-> p,
                    pipe |-> flush_pipeline(p), executes |-> 1]]

\* flush() on the pending list p with pipe.execute() doing x: the pending
\* list after it and what was observed.
\*   flushed   flush() was entered by the last operation
\*   returned  it returned (it did not raise)
\*   before    the pending list it found
\*   pipe      the commands of the pipeline it executed
\*   executes  its pipe.execute() calls
flush(p, x) ==
    IF p = <<>>
    THEN [pending |-> p,
          wobs |-> [flushed |-> TRUE, returned |-> TRUE, before |-> p,
                    pipe |-> <<>>, executes |-> 0]]
    ELSE [pending |-> IF x = "ok" THEN <<>> ELSE p,
          wobs |-> [flushed |-> TRUE, returned |-> x = "ok", before |-> p,
                    pipe |-> flush_pipeline(p), executes |-> 1]]

InitWobs ==
    [flushed |-> FALSE, returned |-> FALSE, before |-> <<>>, pipe |-> <<>>,
     executes |-> 0]

\* TimeSeriesWriter.__init__
InitWriter ==
    /\ pending = <<>>
    /\ wobs = InitWobs

\* The pending list is not grown beyond this while the store keeps failing.
MaxPending == pipeline_batch + 1

\* Mutant: write() flushes only once the batch size is exceeded.
Write_flush_late ==
    \E key \in WriterKeys, timestamp \in Timestamps, data \in WriterData,
       x \in ExecuteOutcomes :
        LET p == Append(pending, [key |-> key, timestamp |-> timestamp,
                                  data |-> data]) IN
        /\ Len(pending) < MaxPending
        /\ IF Len(p) > pipeline_batch
           THEN /\ pending' = flush(p, x).pending
                /\ wobs' = flush(p, x).wobs
           ELSE /\ x = "ok"
                /\ pending' = p
                /\ wobs' = InitWobs

\* TimeSeriesWriter.write(key, timestamp, data)
Write ==
    \E key \in WriterKeys, timestamp \in Timestamps, data \in WriterData,
       x \in ExecuteOutcomes :
        LET p == Append(pending, [key |-> key, timestamp |-> timestamp,
                                  data |-> data]) IN
        /\ Len(pending) < MaxPending
        /\ IF Len(p) >= pipeline_batch
           THEN /\ pending' = flush(p, x).pending
                /\ wobs' = flush(p, x).wobs
           ELSE /\ x = "ok"
                /\ pending' = p
                /\ wobs' = InitWobs

\* TimeSeriesWriter.flush(), called by the flush loop and at shutdown.
Flush ==
    \E x \in ExecuteOutcomes :
        /\ pending = <<>> => x = "ok"
        /\ pending' = flush(pending, x).pending
        /\ wobs' = flush(pending, x).wobs

WriterNext ==
    \/ Write /\ UNCHANGED <<breakerVars, consumerVars, aggVars, threadVars, wsVars, procVars, iotVars, alertVars, flushVars, anomalyVars, trendVars, readerVars, wthreadVars, tickVars, loopVars>>
    \/ Flush /\ UNCHANGED <<breakerVars, consumerVars, aggVars, threadVars, wsVars, procVars, iotVars, alertVars, flushVars, anomalyVars, trendVars, readerVars, wthreadVars, tickVars, loopVars>>

(***************************************************************************)
(* Python float arithmetic (IEEE 754, round to nearest, ties to even), at  *)
(* a precision of MantissaBits bits instead of 53.                         *)
(***************************************************************************)
\* The spacing of the floats around q >= 0.
RECURSIVE ulp(_)
ulp(q) == IF q < 2 ^ MantissaBits THEN 1 ELSE 2 * ulp(q \div 2)

\* The float nearest to the rational n/d (n >= 0, d > 0).
float_round(n, d) ==
    LET u == ulp(n \div d)
        lo == (n \div (d * u)) * u
        hi == lo + u IN
    IF 2 * n < (lo + hi) * d THEN lo
    ELSE IF 2 * n > (lo + hi) * d THEN hi
    ELSE IF (lo \div u) % 2 = 0 THEN lo ELSE hi

\* a + b and a / b on floats
float_add(a, b) == float_round(a + b, 1)
float_div(a, b) == float_round(a, b)

\* sum(values): a left-to-right fold of float additions, started from 0.
RECURSIVE fsum(_, _)
fsum(values, acc) ==
    IF values = <<>> THEN acc ELSE fsum(Tail(values), float_add(acc, values[1]))

sum(values) == fsum(values, 0)

(***************************************************************************)
(* processor/aggregator.py                                                 *)
(***************************************************************************)
\* The aggregation keys, sample values and event timestamps fed to add().
\* Timestamps and the wall clock are on one scale, in seconds.
AggKeys == {"iot:temperature:d1", "activity:click"}
SampleValues == {1, 6}
AggTimes == {0, sliding_sec, MaxWall}

\* A window holds its samples as records: v the value, t the timestamp
\* (sliding windows only) and n, the sequence number of the add() that put
\* it there, which only the observations use.
Vals(entries) == [i \in 1..Len(entries) |-> entries[i].v]
Ids(entries) == {entries[i].n : i \in 1..Len(entries)}

\* sorted(values)
sorted(values) == SortSeq(values, LAMBDA a, b : a < b)

\* p99_idx = max(0, int(count * 0.99) - 1); int(count * 0.99) equals
\* (count * 99) // 100 for every count up to 100000 in binary64.
p99_idx(count) ==
    LET i == ((count * 99) \div 100) - 1 IN IF i > 0 THEN i ELSE 0

\* The AggregateResult built by compute() from the samples (lines 36-50 and
\* 80-94; window_start and window_end are left out). ids is an observation.
AggregateResult(key, values, ids, window_start, window_end) ==
    LET sorted_vals == sorted(values)
        count == Len(sorted_vals) IN
    [key |-> key,
     window_start |-> window_start,
     window_end |-> window_end,
     count |-> count,
     total |-> sum(sorted_vals),
     avg |-> float_div(sum(sorted_vals), count),
     min_val |-> sorted_vals[1],
     max_val |-> sorted_vals[count],
     p99 |-> sorted_vals[p99_idx(count) + 1],
     ids |-> ids]

\* TumblingWindow.compute(key) at wall clock t, for a window started at
\* start: no result (None) or one result.
TumblingWindow_compute(key, values, start, t) ==
    IF values = <<>> THEN <<>>
    ELSE <<AggregateResult(key, Vals(values), Ids(values), start, t)>>

\* SlidingWindow._evict(now): pops from the left while the head is older
\* than the cutoff.
RECURSIVE evict(_, _)
evict(entries, t) ==
    IF entries # <<>> /\ entries[1].t < t - sliding_sec
    THEN evict(Tail(entries), t)
    ELSE entries

\* SlidingWindow.add(value, timestamp)
SlidingWindow_add(entries, value, timestamp, n) ==
    evict(Append(entries, [v |-> value, t |-> timestamp, n |-> n]), timestamp)

\* SlidingWindow.compute(key) at wall clock t: the entries left and the result.
SlidingWindow_compute(key, entries, t) ==
    LET left == evict(entries, t) IN
    [entries |-> left,
     result |-> IF left = <<>> THEN <<>>
                ELSE <<AggregateResult(key, Vals(left), Ids(left), left[1].t, t)>>]

\* list(d.keys()) of a dict d (a function here): Python dicts iterate in
\* insertion order, which is the order in which add() first saw each key.
RECURSIVE first_seen(_, _)
first_seen(log, seen) ==
    IF log = <<>> THEN <<>>
    ELSE IF log[1].key \in seen THEN first_seen(Tail(log), seen)
         ELSE <<log[1].key>> \o first_seen(Tail(log), seen \cup {log[1].key})

dict_keys == first_seen(aobs.log, {})

\* The flush_tumbling() call in progress:
\*   pc       "idle" (no call), "next" (at the for statement), "reset"
\*            (between window.compute and window.reset)
\*   keys     the keys the dict iterator walks, pos the next one, size the
\*            dict's size when the iterator was made
\*   results  the local list results
InitFiter ==
    [pc |-> "idle", keys |-> <<>>, pos |-> 1, size |-> 0, results |-> <<>>]

\* Observations of the aggregator (history, not program state):
\*   adds        add() calls so far; log their arguments, in order
\*   returned    per add: in how many returned flush_tumbling() results it was
\*   since       the adds made since the last flush_tumbling() returned,
\*   prev_since  and those made between the two before it
\*   flushed     some flush_tumbling() has returned; last is what it returned
\*   error       the exception that ended a flush_tumbling(), if any
\*   op          the last operation: "add", "flush", "read"
\*   read        the sliding read, if it was the last operation: its wall
\*               clock and results
NoRead == [wall |-> 0, results |-> <<>>]

InitAobs ==
    [adds |-> 0, log |-> <<>>, returned |-> <<>>, since |-> {},
     prev_since |-> {}, flushed |-> FALSE, last |-> <<>>, error |-> "none",
     op |-> "none", read |-> NoRead]

\* WindowedAggregator.__init__
InitAggregator ==
    /\ tumbling = <<>>
    /\ start_time = <<>>
    /\ sliding = <<>>
    /\ wall = 0
    /\ fiter = InitFiter
    /\ aobs = InitAobs

\* time.time() advances.
WallTick ==
    /\ \E t \in AggTimes : t > wall /\ wall' = t
    /\ UNCHANGED <<tumbling, start_time, sliding, fiter, aobs>>

\* WindowedAggregator.add(key, value, timestamp)
add(key, value, timestamp) ==
    LET n == aobs.adds + 1
        tw == IF key \in DOMAIN tumbling THEN tumbling[key] ELSE <<>>
        sw == IF key \in DOMAIN sliding THEN sliding[key] ELSE <<>> IN
    /\ aobs.adds < MaxSamples
    /\ tumbling' = [k \in DOMAIN tumbling \cup {key} |->
                       IF k = key
                       THEN Append(tw, [v |-> value, n |-> n])
                       ELSE tumbling[k]]
    /\ start_time' = [k \in DOMAIN start_time \cup {key} |->
                         IF k \in DOMAIN start_time THEN start_time[k] ELSE wall]
    /\ sliding' = [k \in DOMAIN sliding \cup {key} |->
                      IF k = key THEN SlidingWindow_add(sw, value, timestamp, n)
                      ELSE sliding[k]]
    /\ aobs' = [aobs EXCEPT !.adds = n,
                            !.log = Append(@, [key |-> key, value |-> value,
                                               timestamp |-> timestamp]),
                            !.returned = Append(@, 0),
                            !.since = @ \cup {n},
                            !.op = "add",
                            !.read = NoRead]
    /\ UNCHANGED <<wall, fiter>>

\* add() of an event stamped with the current time, called by the consumer
\* thread while the flush thread may be anywhere.
Add ==
    \E key \in AggKeys, value \in SampleValues : add(key, value, wall)

\* add() in a run with one thread: no flush_tumbling() is in progress.
AddAlone == fiter.pc = "idle" /\ Add

\* add() of an event with any timestamp: events arrive in any order.
AddAnyTime ==
    \E key \in AggKeys, value \in SampleValues, timestamp \in AggTimes :
        add(key, value, timestamp)

\* flush_tumbling(), lines 123-124: results = [] and the dict iterator is made.
FlushTumbling_begin ==
    /\ fiter.pc = "idle"
    /\ fiter' = [pc |-> "next", keys |-> dict_keys, pos |-> 1,
                 size |-> Len(dict_keys), results |-> <<>>]
    /\ aobs' = [aobs EXCEPT !.op = "flush", !.error = "none", !.read = NoRead]
    /\ UNCHANGED <<tumbling, start_time, sliding, wall>>

\* How often the sample n occurs in the results rs.
Occurrences(rs, n) == Cardinality({i \in 1..Len(rs) : n \in rs[i].ids})

\* The for statement, lines 124-127: the iterator raises RuntimeError when
\* the dict's size has changed since it was made, ends the loop after the
\* last key (return results), or yields the next key, whose window is
\* computed and the result, if any, appended.
FlushTumbling_next ==
    /\ fiter.pc = "next"
    /\ IF Len(dict_keys) # fiter.size
       THEN /\ fiter' = InitFiter
            /\ aobs' = [aobs EXCEPT !.error = "RuntimeError"]
       ELSE IF fiter.pos > fiter.size
       THEN /\ fiter' = InitFiter
            /\ aobs' = [aobs EXCEPT
                  !.returned = [n \in 1..aobs.adds |->
                                   @[n] + Occurrences(fiter.results, n)],
                  !.prev_since = aobs.since,
                  !.since = {},
                  !.flushed = TRUE,
                  !.last = fiter.results]
       ELSE LET key == fiter.keys[fiter.pos] IN
            /\ fiter' = [fiter EXCEPT
                  !.pc = "reset",
                  !.results = @ \o TumblingWindow_compute(key, tumbling[key],
                                                     start_time[key], wall)]
            /\ UNCHANGED aobs
    /\ UNCHANGED <<tumbling, start_time, sliding, wall>>

\* Mutant: the window is not cleared.
FlushTumbling_reset_keep ==
    /\ fiter.pc = "reset"
    /\ fiter' = [fiter EXCEPT !.pc = "next", !.pos = @ + 1]
    /\ UNCHANGED <<tumbling, start_time, sliding, wall, aobs>>

\* Mutant: reset() also empties the key's sliding window.
FlushTumbling_reset_sliding ==
    /\ fiter.pc = "reset"
    /\ tumbling' = [tumbling EXCEPT ![fiter.keys[fiter.pos]] = <<>>]
    /\ start_time' = [start_time EXCEPT ![fiter.keys[fiter.pos]] = wall]
    /\ sliding' = [sliding EXCEPT ![fiter.keys[fiter.pos]] = <<>>]
    /\ fiter' = [fiter EXCEPT !.pc = "next", !.pos = @ + 1]
    /\ UNCHANGED <<wall, aobs>>

\* window.reset(), line 128, and back to the for statement.
FlushTumbling_reset ==
    /\ fiter.pc = "reset"
    /\ tumbling' = [tumbling EXCEPT ![fiter.keys[fiter.pos]] = <<>>]
    /\ start_time' = [start_time EXCEPT ![fiter.keys[fiter.pos]] = wall]
    /\ fiter' = [fiter EXCEPT !.pc = "next", !.pos = @ + 1]
    /\ UNCHANGED <<sliding, wall, aobs>>

\* query_sliding(key) for a key that has a window (None for one that has not).
query_sliding(key) ==
    LET c == SlidingWindow_compute(key, sliding[key], wall) IN
    /\ key \in DOMAIN sliding
    /\ sliding' = [sliding EXCEPT ![key] = c.entries]
    /\ aobs' = [aobs EXCEPT !.op = "read",
                            !.read = [wall |-> wall, results |-> c.result]]
    /\ UNCHANGED <<tumbling, start_time, wall, fiter>>

QuerySliding == \E key \in AggKeys : query_sliding(key)

\* The results list of get_all_sliding() over the keys ks.
RECURSIVE sliding_results(_)
sliding_results(ks) ==
    IF ks = <<>> THEN <<>>
    ELSE SlidingWindow_compute(ks[1], sliding[ks[1]], wall).result
             \o sliding_results(Tail(ks))

\* get_all_sliding()
GetAllSliding ==
    /\ sliding' = [k \in DOMAIN sliding |->
                      SlidingWindow_compute(k, sliding[k], wall).entries]
    /\ aobs' = [aobs EXCEPT !.op = "read",
                            !.read = [wall |-> wall,
                                      results |-> sliding_results(dict_keys)]]
    /\ UNCHANGED <<tumbling, start_time, wall, fiter>>

\* One thread calls add, flush_tumbling, query_sliding and get_all_sliding.
AggregatorNext ==
    \/ AddAlone /\ UNCHANGED <<breakerVars, consumerVars, writerVars, threadVars, wsVars, procVars, iotVars, alertVars, flushVars, anomalyVars, trendVars, readerVars, wthreadVars, tickVars, loopVars>>
    \/ FlushTumbling_begin /\ UNCHANGED <<breakerVars, consumerVars, writerVars, threadVars, wsVars, procVars, iotVars, alertVars, flushVars, anomalyVars, trendVars, readerVars, wthreadVars, tickVars, loopVars>>
    \/ FlushTumbling_next /\ UNCHANGED <<breakerVars, consumerVars, writerVars, threadVars, wsVars, procVars, iotVars, alertVars, flushVars, anomalyVars, trendVars, readerVars, wthreadVars, tickVars, loopVars>>
    \/ FlushTumbling_reset /\ UNCHANGED <<breakerVars, consumerVars, writerVars, threadVars, wsVars, procVars, iotVars, alertVars, flushVars, anomalyVars, trendVars, readerVars, wthreadVars, tickVars, loopVars>>
    \/ QuerySliding /\ UNCHANGED <<breakerVars, consumerVars, writerVars, threadVars, wsVars, procVars, iotVars, alertVars, flushVars, anomalyVars, trendVars, readerVars, wthreadVars, tickVars, loopVars>>
    \/ GetAllSliding /\ UNCHANGED <<breakerVars, consumerVars, writerVars, threadVars, wsVars, procVars, iotVars, alertVars, flushVars, anomalyVars, trendVars, readerVars, wthreadVars, tickVars, loopVars>>

\* One thread calls add, flush_tumbling, query_sliding and get_all_sliding
\* while time passes; every event is stamped with the time of its add.
AggregatorClockNext ==
    \/ WallTick /\ UNCHANGED <<breakerVars, consumerVars, writerVars, threadVars, wsVars, procVars, iotVars, alertVars, flushVars, anomalyVars, trendVars, readerVars, wthreadVars, tickVars, loopVars>>
    \/ AddAlone /\ UNCHANGED <<breakerVars, consumerVars, writerVars, threadVars, wsVars, procVars, iotVars, alertVars, flushVars, anomalyVars, trendVars, readerVars, wthreadVars, tickVars, loopVars>>
    \/ FlushTumbling_begin /\ UNCHANGED <<breakerVars, consumerVars, writerVars, threadVars, wsVars, procVars, iotVars, alertVars, flushVars, anomalyVars, trendVars, readerVars, wthreadVars, tickVars, loopVars>>
    \/ FlushTumbling_next /\ UNCHANGED <<breakerVars, consumerVars, writerVars, threadVars, wsVars, procVars, iotVars, alertVars, flushVars, anomalyVars, trendVars, readerVars, wthreadVars, tickVars, loopVars>>
    \/ FlushTumbling_reset /\ UNCHANGED <<breakerVars, consumerVars, writerVars, threadVars, wsVars, procVars, iotVars, alertVars, flushVars, anomalyVars, trendVars, readerVars, wthreadVars, tickVars, loopVars>>
    \/ QuerySliding /\ UNCHANGED <<breakerVars, consumerVars, writerVars, threadVars, wsVars, procVars, iotVars, alertVars, flushVars, anomalyVars, trendVars, readerVars, wthreadVars, tickVars, loopVars>>
    \/ GetAllSliding /\ UNCHANGED <<breakerVars, consumerVars, writerVars, threadVars, wsVars, procVars, iotVars, alertVars, flushVars, anomalyVars, trendVars, readerVars, wthreadVars, tickVars, loopVars>>

\* The sliding windows alone, with out-of-order events and a moving clock.
SlidingNext ==
    \/ WallTick /\ UNCHANGED <<breakerVars, consumerVars, writerVars, threadVars, wsVars, procVars, iotVars, alertVars, flushVars, anomalyVars, trendVars, readerVars, wthreadVars, tickVars, loopVars>>
    \/ AddAnyTime /\ UNCHANGED <<breakerVars, consumerVars, writerVars, threadVars, wsVars, procVars, iotVars, alertVars, flushVars, anomalyVars, trendVars, readerVars, wthreadVars, tickVars, loopVars>>
    \/ QuerySliding /\ UNCHANGED <<breakerVars, consumerVars, writerVars, threadVars, wsVars, procVars, iotVars, alertVars, flushVars, anomalyVars, trendVars, readerVars, wthreadVars, tickVars, loopVars>>
    \/ GetAllSliding /\ UNCHANGED <<breakerVars, consumerVars, writerVars, threadVars, wsVars, procVars, iotVars, alertVars, flushVars, anomalyVars, trendVars, readerVars, wthreadVars, tickVars, loopVars>>

\* The consumer thread calls add (StreamProcessor._process_iot and
\* _process_activity) while the flush thread runs flush_tumbling (from
\* _flush_windows).
AggregatorThreadsNext ==
    \/ Add /\ UNCHANGED <<breakerVars, consumerVars, writerVars, threadVars, wsVars, procVars, iotVars, alertVars, flushVars, anomalyVars, trendVars, readerVars, wthreadVars, tickVars, loopVars>>
    \/ FlushTumbling_begin /\ UNCHANGED <<breakerVars, consumerVars, writerVars, threadVars, wsVars, procVars, iotVars, alertVars, flushVars, anomalyVars, trendVars, readerVars, wthreadVars, tickVars, loopVars>>
    \/ FlushTumbling_next /\ UNCHANGED <<breakerVars, consumerVars, writerVars, threadVars, wsVars, procVars, iotVars, alertVars, flushVars, anomalyVars, trendVars, readerVars, wthreadVars, tickVars, loopVars>>
    \/ FlushTumbling_reset /\ UNCHANGED <<breakerVars, consumerVars, writerVars, threadVars, wsVars, procVars, iotVars, alertVars, flushVars, anomalyVars, trendVars, readerVars, wthreadVars, tickVars, loopVars>>

(***************************************************************************)
(* storage/redis_client.py : one RedisClient used by two threads.          *)
(* StreamProcessor gives the same client to the cache the consumer thread  *)
(* writes through (process_message) and to the cache the flush thread      *)
(* publishes through (_flush_windows). CircuitBreaker takes no lock, so    *)
(* each thread's reads and writes of its attributes interleave with the    *)
(* other's; `self.failure_count += 1` is a read and a write.               *)
(***************************************************************************)
Threads == {"consumer", "flush"}

\* Observations of the shared breaker (history, not program state):
\*   consec   failures recorded (the writes of record_failure to
\*            failure_count) since the last success was recorded (the write
\*            of record_success to failure_count)
InitTobs == [consec |-> 0]

\* The locals of a thread outside a call; a local is put back to 0 when
\* the code does not read it again.
NoLocals == [attempt |-> 0, count |-> 0]

InitThreads ==
    /\ tpc = [t \in Threads |-> "idle"]
    /\ tloc = [t \in Threads |-> NoLocals]
    /\ tobs = InitTobs

\* The positions inside CircuitBreaker.record_success and record_failure.
InsideRecord ==
    {"record_success", "record_success_state", "record_failure",
     "record_failure_store", "record_failure_time", "record_failure_check"}

\* time.time() advances by more than the recovery timeout.
ThreadsTick ==
    /\ now + 2 * recovery_timeout <= MaxTime
    /\ now' = now + 2 * recovery_timeout
    /\ UNCHANGED <<circuit, threadVars>>

\* execute_with_retry, lines 76-79, on thread t: can_execute() and the loop set-up.
thread_enter(t) ==
    LET c == can_execute(circuit, now) IN
    /\ tpc[t] = "idle"
    /\ circuit' = c.cb
    /\ tpc' = [tpc EXCEPT ![t] = IF c.ret THEN "attempt" ELSE "idle"]
    /\ tloc' = [tloc EXCEPT ![t].attempt = 0]
    /\ UNCHANGED <<now, tobs>>

ThreadEnter == \E t \in Threads : thread_enter(t)

\* func(self.get_client()) on thread t, lines 81-85: o is what it did.
thread_attempt(t, o) ==
    /\ tpc[t] = "attempt"
    /\ IsConnectionFailure(o) => tobs.consec < MaxFailures
    /\ tpc' = [tpc EXCEPT ![t] = IF o = "ok" THEN "record_success"
                                 ELSE IF IsConnectionFailure(o)
                                      THEN "record_failure" ELSE "idle"]
    /\ tloc' = [tloc EXCEPT ![t] = IF IsConnectionFailure(o) THEN @ ELSE NoLocals]
    /\ UNCHANGED <<circuit, now, tobs>>

ThreadAttempt == \E t \in Threads, o \in OpOutcomes : thread_attempt(t, o)

\* record_success, line 39: self.failure_count = 0
thread_record_success_count(t) ==
    /\ tpc[t] = "record_success"
    /\ circuit' = [circuit EXCEPT !.failure_count = 0]
    /\ tobs' = [tobs EXCEPT !.consec = 0]
    /\ tpc' = [tpc EXCEPT ![t] = "record_success_state"]
    /\ UNCHANGED <<now, tloc>>

ThreadRecordSuccessCount == \E t \in Threads : thread_record_success_count(t)

\* record_success, line 40: self.state = "closed"; execute_with_retry returns.
thread_record_success_state(t) ==
    /\ tpc[t] = "record_success_state"
    /\ circuit' = [circuit EXCEPT !.state = "closed"]
    /\ tpc' = [tpc EXCEPT ![t] = "idle"]
    /\ UNCHANGED <<now, tloc, tobs>>

ThreadRecordSuccessState == \E t \in Threads : thread_record_success_state(t)

\* record_failure, line 43: the read of self.failure_count in `+= 1`
thread_record_failure_load(t) ==
    /\ tpc[t] = "record_failure"
    /\ circuit.failure_count < MaxFailures
    /\ tloc' = [tloc EXCEPT ![t].count = circuit.failure_count]
    /\ tpc' = [tpc EXCEPT ![t] = "record_failure_store"]
    /\ UNCHANGED <<circuit, now, tobs>>

ThreadRecordFailureLoad == \E t \in Threads : thread_record_failure_load(t)

\* record_failure, line 43: the write of self.failure_count in `+= 1`
thread_record_failure_store(t) ==
    /\ tpc[t] = "record_failure_store"
    /\ circuit' = [circuit EXCEPT !.failure_count = tloc[t].count + 1]
    /\ tobs' = [tobs EXCEPT !.consec = @ + 1]
    /\ tpc' = [tpc EXCEPT ![t] = "record_failure_time"]
    /\ tloc' = [tloc EXCEPT ![t].count = 0]
    /\ UNCHANGED now

ThreadRecordFailureStore == \E t \in Threads : thread_record_failure_store(t)

\* record_failure, line 44: self.last_failure_time = time.time()
thread_record_failure_time(t) ==
    /\ tpc[t] = "record_failure_time"
    /\ circuit' = [circuit EXCEPT !.last_failure_time = now]
    /\ tpc' = [tpc EXCEPT ![t] = "record_failure_check"]
    /\ UNCHANGED <<now, tloc, tobs>>

ThreadRecordFailureTime == \E t \in Threads : thread_record_failure_time(t)

\* record_failure, lines 45-46, and execute_with_retry, line 88: the loop
\* sleeps before a following attempt or is exhausted and raises.
thread_record_failure_check(t) ==
    /\ tpc[t] = "record_failure_check"
    /\ circuit' = [circuit EXCEPT
                      !.state = IF circuit.failure_count >= failure_threshold
                                THEN "open" ELSE @]
    /\ IF tloc[t].attempt < default_max_retries - 1
       THEN tpc' = [tpc EXCEPT ![t] = "sleep"] /\ UNCHANGED tloc
       ELSE tpc' = [tpc EXCEPT ![t] = "idle"] /\ tloc' = [tloc EXCEPT ![t] = NoLocals]
    /\ UNCHANGED <<now, tobs>>

ThreadRecordFailureCheck == \E t \in Threads : thread_record_failure_check(t)

\* time.sleep(backoff), line 96, and the next iteration of the for loop.
thread_sleep(t) ==
    /\ tpc[t] = "sleep"
    /\ tloc' = [tloc EXCEPT ![t].attempt = @ + 1]
    /\ tpc' = [tpc EXCEPT ![t] = "attempt"]
    /\ UNCHANGED <<circuit, now, tobs>>

ThreadSleep == \E t \in Threads : thread_sleep(t)

BreakerThreadsNext ==
    \/ ThreadsTick /\ UNCHANGED <<rpc, attempt, max_retries, last_error, call, consumerVars, writerVars, aggVars, wsVars, procVars, iotVars, alertVars, flushVars, anomalyVars, trendVars, readerVars, wthreadVars, tickVars, loopVars>>
    \/ ThreadEnter /\ UNCHANGED <<rpc, attempt, max_retries, last_error, call, consumerVars, writerVars, aggVars, wsVars, procVars, iotVars, alertVars, flushVars, anomalyVars, trendVars, readerVars, wthreadVars, tickVars, loopVars>>
    \/ ThreadAttempt /\ UNCHANGED <<rpc, attempt, max_retries, last_error, call, consumerVars, writerVars, aggVars, wsVars, procVars, iotVars, alertVars, flushVars, anomalyVars, trendVars, readerVars, wthreadVars, tickVars, loopVars>>
    \/ ThreadRecordSuccessCount /\ UNCHANGED <<rpc, attempt, max_retries, last_error, call, consumerVars, writerVars, aggVars, wsVars, procVars, iotVars, alertVars, flushVars, anomalyVars, trendVars, readerVars, wthreadVars, tickVars, loopVars>>
    \/ ThreadRecordSuccessState /\ UNCHANGED <<rpc, attempt, max_retries, last_error, call, consumerVars, writerVars, aggVars, wsVars, procVars, iotVars, alertVars, flushVars, anomalyVars, trendVars, readerVars, wthreadVars, tickVars, loopVars>>
    \/ ThreadRecordFailureLoad /\ UNCHANGED <<rpc, attempt, max_retries, last_error, call, consumerVars, writerVars, aggVars, wsVars, procVars, iotVars, alertVars, flushVars, anomalyVars, trendVars, readerVars, wthreadVars, tickVars, loopVars>>
    \/ ThreadRecordFailureStore /\ UNCHANGED <<rpc, attempt, max_retries, last_error, call, consumerVars, writerVars, aggVars, wsVars, procVars, iotVars, alertVars, flushVars, anomalyVars, trendVars, readerVars, wthreadVars, tickVars, loopVars>>
    \/ ThreadRecordFailureTime /\ UNCHANGED <<rpc, attempt, max_retries, last_error, call, consumerVars, writerVars, aggVars, wsVars, procVars, iotVars, alertVars, flushVars, anomalyVars, trendVars, readerVars, wthreadVars, tickVars, loopVars>>
    \/ ThreadRecordFailureCheck /\ UNCHANGED <<rpc, attempt, max_retries, last_error, call, consumerVars, writerVars, aggVars, wsVars, procVars, iotVars, alertVars, flushVars, anomalyVars, trendVars, readerVars, wthreadVars, tickVars, loopVars>>
    \/ ThreadSleep /\ UNCHANGED <<rpc, attempt, max_retries, last_error, call, consumerVars, writerVars, aggVars, wsVars, procVars, iotVars, alertVars, flushVars, anomalyVars, trendVars, readerVars, wthreadVars, tickVars, loopVars>>

(***************************************************************************)
(* api/ws_manager.py : WebSocketManager, PubSubListener                    *)
(* Times are in milliseconds. All of this runs on one event loop; the      *)
(* loop of broadcast() has no await, and the sends gathered after it touch *)
(* the manager only through disconnect().                                  *)
(***************************************************************************)
WebSockets == {"ws1", "ws2"}

\* ConnectionState.__init__: self.channels
DefaultChannels == {"iot", "activity", "alerts", "trends"}

\* The channel lists a client subscribes with, as sets.
FilterChoices == {{}, {"metrics"}, {"iot", "metrics"}}

\* The channels broadcast() is called with, and the payloads.
BroadcastChannels == {"metrics", "iot"}
Payloads == {"p1", "p2"}

\* ConnectionState(websocket)
ConnectionState == [channels |-> DefaultChannels, last_send_time |-> 0]

\* Mutant: a subscriber is also skipped when exactly the interval has passed.
throttled_at_interval(state, t) == t - state.last_send_time <= throttle_ms

\* now - state.last_send_time < self._throttle_interval
throttled(state, t) == t - state.last_send_time < throttle_ms

\* What a subscriber's socket does when _safe_send reaches it: the send goes
\* through, send_text raises, or the socket is no longer CONNECTED.
SocketOutcomes == {"ok", "error", "closed"}

\* Mutant: _safe_send without its try/except.
safe_send_unguarded(ws, o) ==
    [sent |-> o = "ok", disconnect |-> FALSE, raised |-> o = "error"]

\* _safe_send(ws, message) when the socket does o: whether the message was
\* sent, whether disconnect(ws) was called, whether an exception escaped.
safe_send(ws, o) ==
    [sent |-> o = "ok", disconnect |-> o = "error", raised |-> FALSE]

\* The loop of broadcast(), lines 58-62: the subscribers not skipped.
eligible(conns, channel, t) ==
    {ws \in DOMAIN conns :
        channel \in conns[ws].channels /\ ~throttled(conns[ws], t)}

\* broadcast(channel, data) at time t on the connections conns, the sockets
\* doing outcome[ws]: the subscribers a send was dispatched to, the
\* connections after the loop and after the gathered sends, the messages
\* sent, and whether the call raised.
broadcast(conns, channel, data, t, outcome) ==
    LET dispatched == eligible(conns, channel, t)
        stamped == [ws \in DOMAIN conns |->
                       IF ws \in dispatched
                       THEN [conns[ws] EXCEPT !.last_send_time = t]
                       ELSE conns[ws]]
        dropped == {ws \in dispatched : safe_send(ws, outcome[ws]).disconnect} IN
    [dispatched |-> dispatched,
     stamped |-> stamped,
     connections |-> [ws \in DOMAIN conns \ dropped |-> stamped[ws]],
     sent |-> {[ws |-> ws, channel |-> channel, data |-> data] :
                  ws \in {w \in dispatched : safe_send(w, outcome[w]).sent}},
     raised |-> \E ws \in dispatched : safe_send(ws, outcome[ws]).raised]

\* Observations of the manager (history, not program state):
\*   last_dispatch  per socket: when a send was last dispatched to its
\*                  current connection (-1: never)
\*   via            what made the last step: "none", "direct" (a broadcast
\*                  call), "bridge" (the bridge forwarded a message),
\*                  "skipped" (the bridge dropped a message)
\*   channel, data, now, before, outcome   the arguments of that broadcast:
\*                  the clock, the connections and the sockets' behaviour
\*   prev_dispatch  last_dispatch before that broadcast
\*   call           what broadcast() did, see broadcast
NoBroadcast ==
    [via |-> "none", channel |-> "", data |-> "", now |-> 0, before |-> <<>>,
     outcome |-> <<>>, prev_dispatch |-> <<>>,
     call |-> [dispatched |-> {}, stamped |-> <<>>, connections |-> <<>>,
               sent |-> {}, raised |-> FALSE]]

InitWsobs == [last_dispatch |-> [ws \in WebSockets |-> -1], last |-> NoBroadcast]

\* WebSocketManager.__init__
InitWs ==
    /\ connections = <<>>
    /\ ws_now = 10 * throttle_ms
    /\ wsobs = InitWsobs

\* time.time() advances by half the throttle interval or by all of it.
WsTick ==
    /\ \E d \in {throttle_ms \div 2, throttle_ms} :
          /\ ws_now + d <= MaxWsTime
          /\ ws_now' = ws_now + d
    /\ wsobs' = [wsobs EXCEPT !.last = NoBroadcast]
    /\ UNCHANGED connections

\* connect(websocket)
connect(ws) ==
    /\ ws \notin DOMAIN connections
    /\ connections' = [w \in DOMAIN connections \cup {ws} |->
                          IF w = ws THEN ConnectionState ELSE connections[w]]
    /\ wsobs' = [wsobs EXCEPT !.last_dispatch[ws] = -1, !.last = NoBroadcast]
    /\ UNCHANGED ws_now

Connect == \E ws \in WebSockets : connect(ws)

\* disconnect(websocket), called by the route when the client goes away.
disconnect(ws) ==
    /\ ws \in DOMAIN connections
    /\ connections' = [w \in DOMAIN connections \ {ws} |-> connections[w]]
    /\ wsobs' = [wsobs EXCEPT !.last = NoBroadcast]
    /\ UNCHANGED ws_now

Disconnect == \E ws \in WebSockets : disconnect(ws)

\* update_filters(websocket, channels)
update_filters(ws, channels) ==
    /\ ws \in DOMAIN connections
    /\ connections' = [connections EXCEPT ![ws].channels = channels]
    /\ wsobs' = [wsobs EXCEPT !.last = NoBroadcast]
    /\ UNCHANGED ws_now

UpdateFilters ==
    \E ws \in WebSockets, channels \in FilterChoices : update_filters(ws, channels)

\* The manager after a broadcast(channel, data) now, made by `via`.
Broadcasting(via, channel, data, outcome) ==
    LET b == broadcast(connections, channel, data, ws_now, outcome) IN
    /\ connections' = b.connections
    /\ wsobs' = [last_dispatch |->
                    [ws \in WebSockets |->
                        IF ws \in b.dispatched THEN ws_now
                        ELSE wsobs.last_dispatch[ws]],
                 last |-> [via |-> via, channel |-> channel, data |-> data,
                           now |-> ws_now, before |-> connections,
                           outcome |-> outcome,
                           prev_dispatch |-> wsobs.last_dispatch,
                           call |-> b]]
    /\ UNCHANGED ws_now

\* What the sockets can do during a broadcast on channel: only the sockets
\* a send is dispatched to are asked to do anything.
SendOutcomesFor(channel) ==
    {o \in [DOMAIN connections -> SocketOutcomes] :
        \A ws \in DOMAIN connections :
            ws \notin eligible(connections, channel, ws_now) => o[ws] = "ok"}

\* broadcast(channel, data) with at least one connection (it returns at
\* once with none).
Broadcast ==
    /\ DOMAIN connections # {}
    /\ \E channel \in BroadcastChannels, data \in Payloads :
          \E outcome \in SendOutcomesFor(channel) :
              Broadcasting("direct", channel, data, outcome)

\* The messages pubsub.listen() yields: the subscribe confirmation, and
\* published messages whose data is a JSON document or is not.
PubSubMessages ==
    {[type |-> "subscribe", json |-> FALSE, data |-> "p1"]}
        \cup {[type |-> "message", json |-> j, data |-> d] :
                 j \in BOOLEAN, d \in Payloads}

\* PubSubListener.run, lines 98-108, for one message of the subscription.
PubSubListener_message(message) ==
    IF message.type # "message" \/ ~message.json \/ DOMAIN connections = {}
    THEN /\ wsobs' = [wsobs EXCEPT !.last = [NoBroadcast EXCEPT !.via = "skipped"]]
         /\ UNCHANGED <<connections, ws_now>>
    ELSE \E outcome \in SendOutcomesFor("metrics") :
             Broadcasting("bridge", "metrics", message.data, outcome)

Bridge == \E message \in PubSubMessages : PubSubListener_message(message)

WsNext ==
    \/ WsTick /\ UNCHANGED <<breakerVars, consumerVars, writerVars, aggVars, threadVars, procVars, iotVars, alertVars, flushVars, anomalyVars, trendVars, readerVars, wthreadVars, tickVars, loopVars>>
    \/ Connect /\ UNCHANGED <<breakerVars, consumerVars, writerVars, aggVars, threadVars, procVars, iotVars, alertVars, flushVars, anomalyVars, trendVars, readerVars, wthreadVars, tickVars, loopVars>>
    \/ Disconnect /\ UNCHANGED <<breakerVars, consumerVars, writerVars, aggVars, threadVars, procVars, iotVars, alertVars, flushVars, anomalyVars, trendVars, readerVars, wthreadVars, tickVars, loopVars>>
    \/ UpdateFilters /\ UNCHANGED <<breakerVars, consumerVars, writerVars, aggVars, threadVars, procVars, iotVars, alertVars, flushVars, anomalyVars, trendVars, readerVars, wthreadVars, tickVars, loopVars>>
    \/ Broadcast /\ UNCHANGED <<breakerVars, consumerVars, writerVars, aggVars, threadVars, procVars, iotVars, alertVars, flushVars, anomalyVars, trendVars, readerVars, wthreadVars, tickVars, loopVars>>
    \/ Bridge /\ UNCHANGED <<breakerVars, consumerVars, writerVars, aggVars, threadVars, procVars, iotVars, alertVars, flushVars, anomalyVars, trendVars, readerVars, wthreadVars, tickVars, loopVars>>

(***************************************************************************)
(* processor/main.py : StreamProcessor                                     *)
(* run() starts the flush thread, runs the consumer on the calling thread  *)
(* and, when the consumer's run() has ended, runs its finally block.       *)
(***************************************************************************)
\* StreamProcessor.__init__
InitProcessor ==
    /\ ppc = "consumer"
    /\ flush_running = TRUE
    /\ shutdown_log = <<>>

\* agg_key of _process_iot / _process_activity for a message of the topic.
agg_key(topic) ==
    IF topic = "iot.sensors.raw" THEN "iot:temperature:d1" ELSE "activity:click"

\* What handling batch[idx] does to the time-series writer. A handler call
\* that returned has called self._ts_writer.write(agg_key, ts, event)
\* (lines 84 and 100), and the flush of a pending list that reached the
\* batch size returned; a call that raised KeyError or TypeError raised
\* when it read the event's fields, before the write. The event's timestamp
\* and its data are stand-ins taken from the record's offset.
process_message_write ==
    LET msg == batch[idx]
        p == Append(pending, [key |-> agg_key(msg.topic),
                              timestamp |-> msg.offset + 1, data |-> "r1"]) IN
    IF processed' = processed + 1
    THEN IF Len(p) >= pipeline_batch
         THEN /\ pending' = flush(p, "ok").pending
              /\ wobs' = flush(p, "ok").wobs
         ELSE /\ pending' = p
              /\ wobs' = InitWobs
    ELSE UNCHANGED writerVars

\* The consumer handles a message with process_message as its handler.
ProcessMessage == Handle /\ process_message_write

\* _flush_loop: one iteration of `while self._flush_running`, as far as the
\* time-series writer is concerned (self._ts_writer.flush() in
\* _flush_windows; its exception is caught and logged by the loop).
FlushLoop ==
    /\ flush_running
    /\ Flush
    /\ UNCHANGED procVars

\* The finally block of run(), lines 184-186, entered when the consumer's
\* run() has ended (and with it _cleanup): x is what the final flush's
\* pipe.execute() does. A flush that raises leaves the block.
RunFinally ==
    /\ ppc = "consumer"
    /\ cpc = "done"
    /\ \E x \in ExecuteOutcomes :
          /\ pending = <<>> => x = "ok"
          /\ flush_running' = FALSE
          /\ pending' = flush(pending, x).pending
          /\ wobs' = flush(pending, x).wobs
          /\ IF x = "ok"
             THEN /\ shutdown_log' = <<"flush_running = False", "ts_writer.flush",
                                       "redis.close">>
                  /\ ppc' = "stopped"
             ELSE /\ shutdown_log' = <<"flush_running = False", "ts_writer.flush">>
                  /\ ppc' = x

ProcessorNext ==
    \/ Shutdown /\ UNCHANGED <<breakerVars, writerVars, aggVars, threadVars, wsVars, procVars, iotVars, alertVars, flushVars, anomalyVars, trendVars, readerVars, wthreadVars, tickVars, loopVars>>
    \/ LoopExit /\ UNCHANGED <<breakerVars, writerVars, aggVars, threadVars, wsVars, procVars, iotVars, alertVars, flushVars, anomalyVars, trendVars, readerVars, wthreadVars, tickVars, loopVars>>
    \/ Poll /\ UNCHANGED <<breakerVars, writerVars, aggVars, threadVars, wsVars, procVars, iotVars, alertVars, flushVars, anomalyVars, trendVars, readerVars, wthreadVars, tickVars, loopVars>>
    \/ ProcessMessage /\ UNCHANGED <<breakerVars, aggVars, threadVars, wsVars, procVars, iotVars, alertVars, flushVars, anomalyVars, trendVars, readerVars, wthreadVars, tickVars, loopVars>>
    \/ Commit /\ UNCHANGED <<breakerVars, writerVars, aggVars, threadVars, wsVars, procVars, iotVars, alertVars, flushVars, anomalyVars, trendVars, readerVars, wthreadVars, tickVars, loopVars>>
    \/ Cleanup /\ UNCHANGED <<breakerVars, writerVars, aggVars, threadVars, wsVars, procVars, iotVars, alertVars, flushVars, anomalyVars, trendVars, readerVars, wthreadVars, tickVars, loopVars>>
    \/ FlushLoop /\ UNCHANGED <<breakerVars, consumerVars, aggVars, threadVars, wsVars, iotVars, alertVars, flushVars, anomalyVars, trendVars, readerVars, wthreadVars, tickVars, loopVars>>
    \/ RunFinally /\ UNCHANGED <<breakerVars, consumerVars, aggVars, threadVars, wsVars, iotVars, alertVars, flushVars, anomalyVars, trendVars, readerVars, wthreadVars, tickVars, loopVars>>


(***************************************************************************)
(* processor/main.py : StreamProcessor._process_iot                        *)
(* One call handles one event on the consumer thread. The engines are      *)
(* seen through the calls made to them; the time-series writer is the      *)
(* writer modelled above.                                                  *)
(***************************************************************************)
\* The IoT events handled: the fields _process_iot reads.
IotEvents ==
    [device_id : {"d1", "d2"}, sensor_type : {"temperature"},
     value : {1}, timestamp : Timestamps]

\* agg_key = f"iot:{sensor_type}:{device_id}"
iot_agg_key(event) == <<"iot:", event.sensor_type, ":", event.device_id>>

\* What a MetricsCache operation, which is one execute_with_retry call,
\* can do: return, or raise CircuitOpenError, the last connection failure
\* of its attempts, or an exception the retry loop does not catch.
CacheOutcomes ==
    {"ok", "CircuitOpenError", "ConnectionError", "TimeoutError", "ResponseError"}

\* Observations of the last _process_iot call (history, not program state):
\*   handled  some call has been made
\*   event    its argument
\*   fired    whether self._anomaly.check returned an event
\*   calls    the calls it made to the engines and to the storage, in order
\*   raised   "none", or the exception that ended it
InitIobs ==
    [handled |-> FALSE, event |-> [device_id |-> "d1", sensor_type |-> "temperature",
                                   value |-> 1, timestamp |-> 1],
     fired |-> FALSE, calls |-> <<>>, raised |-> "none"]

InitIot == iobs = InitIobs

\* _process_iot(event), lines 63-87. fires: whether the detector returned an
\* anomaly; a, w, l: what push_alert, the flush inside ts_writer.write (if
\* the batch is full) and update_iot_latest do. An exception of any of
\* them leaves the handler at that line.
process_iot(event, fires, a, w, l) ==
    LET k == iot_agg_key(event)
        p == Append(pending, [key |-> k, timestamp |-> event.timestamp,
                              data |-> "r1"])
        full == Len(p) >= pipeline_batch
        engines == <<[to |-> "aggregator.add", key |-> k],
                     [to |-> "anomaly.check", key |-> k]>>
        alert == IF fires THEN <<[to |-> "cache.push_alert", key |-> k]>> ELSE <<>>
        trend == <<[to |-> "trend.add", key |-> k]>>
        write == <<[to |-> "ts_writer.write", key |-> k]>>
        latest == <<[to |-> "cache.update_iot_latest", key |-> event.device_id]>>
        seen == [handled |-> TRUE, event |-> event, fired |-> fires,
                 calls |-> <<>>, raised |-> "none"] IN
    /\ Len(pending) < MaxPending
    /\ ~fires => a = "ok"
    /\ (a # "ok" \/ ~full) => w = "ok"
    /\ (a # "ok" \/ w # "ok") => l = "ok"
    /\ IF a # "ok"
       THEN \* push_alert raised, line 76
            /\ iobs' = [seen EXCEPT !.calls = engines \o alert, !.raised = a]
            /\ UNCHANGED writerVars
       ELSE /\ pending' = IF full THEN flush(p, w).pending ELSE p
            /\ wobs' = IF full THEN flush(p, w).wobs ELSE InitWobs
            /\ IF w # "ok"
               THEN \* the flush inside write raised, line 84
                    iobs' = [seen EXCEPT
                                !.calls = engines \o alert \o trend \o write,
                                !.raised = w]
               ELSE iobs' = [seen EXCEPT
                                !.calls = engines \o alert \o trend \o write \o latest,
                                !.raised = l]

ProcessIot ==
    \E event \in IotEvents, fires \in BOOLEAN, a \in CacheOutcomes,
       w \in ExecuteOutcomes, l \in CacheOutcomes :
        process_iot(event, fires, a, w, l)

\* The flush loop's self._ts_writer.flush(), between two events.
IotFlush == Flush /\ UNCHANGED iobs

IotNext ==
    \/ ProcessIot /\ UNCHANGED <<breakerVars, consumerVars, aggVars, threadVars, wsVars, procVars, alertVars, flushVars, anomalyVars, trendVars, readerVars, wthreadVars, tickVars, loopVars>>
    \/ IotFlush /\ UNCHANGED <<breakerVars, consumerVars, aggVars, threadVars, wsVars, procVars, alertVars, flushVars, anomalyVars, trendVars, readerVars, wthreadVars, tickVars, loopVars>>

(***************************************************************************)
(* The round trips to the store: storage/cache.py (MetricsCache) and       *)
(* storage/time_series.py (TimeSeriesWriter) on one RedisClient.           *)
(***************************************************************************)
\* A MetricsCache operation: self._client.execute_with_retry(_op), with the
\* default max_retries.
CacheCall == ExecuteWithRetry_enter(default_max_retries)

\* The one record the pipeline writes here.
StoreRecord == [key |-> "iot:temperature:d1", timestamp |-> 1, data |-> "r1"]

\* TimeSeriesWriter.write of that record; its flush, when the batch is
\* full, takes its pipeline from self._client.pipeline() and calls
\* pipe.execute() itself.
StoreWrite ==
    /\ Write
    /\ \A i \in 1..Len(pending') : pending'[i] = StoreRecord
    /\ wobs'.before # <<>> => wobs'.before[Len(wobs'.before)] = StoreRecord

StoreNext ==
    \/ CacheCall /\ UNCHANGED <<consumerVars, writerVars, aggVars, threadVars, wsVars, procVars, iotVars, alertVars, flushVars, anomalyVars, trendVars, readerVars, wthreadVars, tickVars, loopVars>>
    \/ Attempt /\ UNCHANGED <<consumerVars, writerVars, aggVars, threadVars, wsVars, procVars, iotVars, alertVars, flushVars, anomalyVars, trendVars, readerVars, wthreadVars, tickVars, loopVars>>
    \/ ExecuteWithRetry_sleep /\ UNCHANGED <<consumerVars, writerVars, aggVars, threadVars, wsVars, procVars, iotVars, alertVars, flushVars, anomalyVars, trendVars, readerVars, wthreadVars, tickVars, loopVars>>
    \/ StoreWrite /\ UNCHANGED <<breakerVars, consumerVars, aggVars, threadVars, wsVars, procVars, iotVars, alertVars, flushVars, anomalyVars, trendVars, readerVars, wthreadVars, tickVars, loopVars>>
    \/ Flush /\ UNCHANGED <<breakerVars, consumerVars, aggVars, threadVars, wsVars, procVars, iotVars, alertVars, flushVars, anomalyVars, trendVars, readerVars, wthreadVars, tickVars, loopVars>>

(***************************************************************************)
(* storage/cache.py : MetricsCache.push_alert                              *)
(* The list lives in the store; push_alert reaches it through              *)
(* execute_with_retry, whose function queues LPUSH and LTRIM on a pipeline *)
(* (r.pipeline(), a MULTI/EXEC transaction) and executes it.               *)
(***************************************************************************)
\* LPUSH key value: the value becomes the head of the list.
lpush(list, value) == <<value>> \o list

\* Mutant: LTRIM keeps one element more.
ltrim_one_more(list, start, stop) ==
    SubSeq(list, start + 1, IF stop + 2 < Len(list) THEN stop + 2 ELSE Len(list))

\* LTRIM key start stop: the elements at the zero-based indexes start..stop
\* are kept.
ltrim(list, start, stop) ==
    SubSeq(list, start + 1, IF stop + 1 < Len(list) THEN stop + 1 ELSE Len(list))

\* The transaction of _op, lines 51-54, applied to the stored list.
push_alert_op(list, alert_data) ==
    ltrim(lpush(list, json_dumps(alert_data)), 0, MAX_ALERTS - 1)

\* Observations of the pushes (history, not program state):
\*   pushes    push_alert calls so far; the n-th call pushes the alert n
\*   applied   the alerts whose transaction the store has executed, in order
\*   failures  attempts that raised
InitAlobs == [pushes |-> 0, applied |-> <<>>, failures |-> 0]

InitAlerts ==
    /\ alerts = <<>>
    /\ alobs = InitAlobs

\* push_alert(alert_data), line 55: the call of execute_with_retry.
PushAlert_call ==
    /\ alobs.pushes < MaxPushes
    /\ CacheCall
    /\ alobs' = [alobs EXCEPT !.pushes = @ + 1]
    /\ UNCHANGED alerts

\* One attempt of that call. The store executes the transaction as a
\* whole or not at all; an attempt that returns has had it executed, one
\* that raises TimeoutError may have had it executed before the reply was
\* lost, one that raises ConnectionError or ResponseError has not.
PushAlert_attempt ==
    \E o \in OpOutcomes, executed \in BOOLEAN :
        /\ o = "ok" => executed
        /\ o \in {"ConnectionError", "ResponseError"} => ~executed
        /\ o # "ok" => alobs.failures < MaxPushFailures
        /\ ExecuteWithRetry_attempt(o)
        /\ alerts' = IF executed THEN push_alert_op(alerts, alobs.pushes) ELSE alerts
        /\ alobs' = [alobs EXCEPT
                        !.applied = IF executed THEN Append(@, alobs.pushes) ELSE @,
                        !.failures = IF o = "ok" THEN @ ELSE @ + 1]

\* The back-off between two attempts.
PushAlert_sleep == ExecuteWithRetry_sleep /\ UNCHANGED alertVars

AlertsNext ==
    \/ PushAlert_call /\ UNCHANGED <<consumerVars, writerVars, aggVars, threadVars, wsVars, procVars, iotVars, flushVars, anomalyVars, trendVars, readerVars, wthreadVars, tickVars, loopVars>>
    \/ PushAlert_attempt /\ UNCHANGED <<consumerVars, writerVars, aggVars, threadVars, wsVars, procVars, iotVars, flushVars, anomalyVars, trendVars, readerVars, wthreadVars, tickVars, loopVars>>
    \/ PushAlert_sleep /\ UNCHANGED <<consumerVars, writerVars, aggVars, threadVars, wsVars, procVars, iotVars, flushVars, anomalyVars, trendVars, readerVars, wthreadVars, tickVars, loopVars>>

(***************************************************************************)
(* processor/main.py : StreamProcessor._flush_loop                         *)
(* The flush thread: `while self._flush_running`, a sleep of               *)
(* tumbling_window_sec, and _flush_windows() inside try/except Exception.  *)
(***************************************************************************)
\* What _flush_windows() can do: return, or raise at one of its calls.
\* The three reads iterate dicts the consumer thread inserts into
\* (RuntimeError); the writer's flush executes its pipeline itself; the
\* publish is one execute_with_retry call.
FlushWindowsOutcomes ==
    {[at |-> "return", error |-> "none"]}
        \cup [at : {"flush_tumbling", "get_all_sliding", "get_all_trends"},
              error : {"RuntimeError"}]
        \cup [at : {"ts_writer.flush"}, error : {"ConnectionError", "TimeoutError"}]
        \cup [at : {"publish_update"}, error : CacheOutcomes \ {"ok"}]

\* Observations of the flush loop (history, not program state):
\*   clock   the thread's time, in seconds
\*   ticks   _flush_windows() calls so far
\*   at      the clock of the last of them (-1: none yet)
\*   last    what the last of them did
\*   logged  "flush_error" log entries so far
InitFobs ==
    [clock |-> 0, ticks |-> 0, at |-> -1,
     last |-> [at |-> "return", error |-> "none"], logged |-> 0]

\* The thread as run() starts it.
InitFlushLoop ==
    /\ fpc = "test"
    /\ fobs = InitFobs

\* while self._flush_running, line 115
FlushLoop_test ==
    /\ fpc = "test"
    /\ fobs.ticks < MaxTicks
    /\ fpc' = IF flush_running THEN "sleep" ELSE "ended"
    /\ UNCHANGED fobs

\* time.sleep(self.settings.tumbling_window_sec), line 116
FlushLoop_sleep ==
    /\ fpc = "sleep"
    /\ fpc' = "tick"
    /\ fobs' = [fobs EXCEPT !.clock = @ + tumbling_window_sec]

\* Mutant: no except clause around _flush_windows().
FlushLoop_tick_uncaught ==
    /\ fpc = "tick"
    /\ \E o \in FlushWindowsOutcomes :
         /\ fobs' = [fobs EXCEPT !.ticks = @ + 1, !.at = fobs.clock, !.last = o]
         /\ fpc' = IF o.error = "none" THEN "test" ELSE "ended"

\* Lines 117-120: _flush_windows() doing o; every exception it raises is an
\* Exception, which the except clause logs; then back to the loop test.
FlushLoop_tick ==
    /\ fpc = "tick"
    /\ \E o \in FlushWindowsOutcomes :
         /\ fobs' = [fobs EXCEPT !.ticks = @ + 1, !.at = fobs.clock, !.last = o,
                                 !.logged = IF o.error = "none" THEN @ ELSE @ + 1]
         /\ fpc' = "test"

\* The steps of the flush thread.
FlushThread == FlushLoop_test \/ FlushLoop_sleep \/ FlushLoop_tick

\* self._flush_running = False, line 184, on the thread of run().
ClearFlushRunning ==
    /\ flush_running
    /\ flush_running' = FALSE
    /\ UNCHANGED <<ppc, shutdown_log, flushVars>>

FlushLoopNext ==
    \/ FlushLoop_test /\ UNCHANGED <<breakerVars, consumerVars, writerVars, aggVars, threadVars, wsVars, procVars, iotVars, alertVars, anomalyVars, trendVars, readerVars, wthreadVars, tickVars, loopVars>>
    \/ FlushLoop_sleep /\ UNCHANGED <<breakerVars, consumerVars, writerVars, aggVars, threadVars, wsVars, procVars, iotVars, alertVars, anomalyVars, trendVars, readerVars, wthreadVars, tickVars, loopVars>>
    \/ FlushLoop_tick /\ UNCHANGED <<breakerVars, consumerVars, writerVars, aggVars, threadVars, wsVars, procVars, iotVars, alertVars, anomalyVars, trendVars, readerVars, wthreadVars, tickVars, loopVars>>
    \/ ClearFlushRunning /\ UNCHANGED <<breakerVars, consumerVars, writerVars, aggVars, threadVars, wsVars, iotVars, alertVars, anomalyVars, trendVars, readerVars, wthreadVars, tickVars, loopVars>>

(***************************************************************************)
(* processor/anomaly.py : ZScoreDetector                                   *)
(* Values are integers, in units of 1e-11, and statistics.mean and         *)
(* statistics.stdev are exact, so the tests of check() are computed on     *)
(* fractions: for a ring w of n values with sum S and sum of squares Q,    *)
(*   mean = S/n,   std^2 = (n*Q - S*S) / (n*(n-1)).                        *)
(***************************************************************************)
AnomalyKeys == {"iot:temperature:d1"}
AnomalyValues == {-100, 0, 1, 100}

RECURSIVE isum(_)
isum(w) == IF w = <<>> THEN 0 ELSE w[1] + isum(Tail(w))

squares(w) == [i \in 1..Len(w) |-> w[i] * w[i]]

\* n*(n-1) * std^2
variance_num(w) == Len(w) * isum(squares(w)) - isum(w) * isum(w)
variance_den(w) == Len(w) * (Len(w) - 1)

\* std < 1e-10, line 53: 1e-10 is 10 units, so std^2 < 100 units^2.
std_below_epsilon(w) == variance_num(w) < 100 * variance_den(w)

\* abs(z_score) > t for z_score = (value - mean) / std, std > 0:
\* (value - S/n)^2 > t^2 * std^2, both sides multiplied by n^2 * (n-1).
abs_z_exceeds(value, w, t) ==
    LET n == Len(w) IN
    (n * value - isum(w)) * (n * value - isum(w)) * (n - 1)
        > t * t * n * variance_num(w)

\* deque(maxlen=window_size).append(value)
ring_append(w, value) ==
    IF Len(w) < window_size THEN Append(w, value) ELSE Append(Tail(w), value)

NoEvent == [event |-> FALSE, severity |-> "none"]

\* What check() returns for the ring w with the value in it, lines 47-69.
detect(w, value) ==
    IF Len(w) < MIN_WINDOW_SIZE THEN NoEvent
    ELSE IF std_below_epsilon(w) THEN NoEvent
    ELSE IF abs_z_exceeds(value, w, z_threshold)
         THEN [event |-> TRUE,
               severity |-> IF abs_z_exceeds(value, w, critical_z)
                            THEN "critical" ELSE "warning"]
         ELSE NoEvent

\* Mutant: the statistics are those of the ring before the append.
check_before_append(ring, value) ==
    [window |-> ring_append(ring, value),
     result |-> IF Len(ring_append(ring, value)) < MIN_WINDOW_SIZE THEN NoEvent
                ELSE detect(ring, value)]

\* check(key, value, timestamp) on the key's ring: the ring after the
\* append of line 45 and the value returned.
check(ring, value) ==
    [window |-> ring_append(ring, value),
     result |-> detect(ring_append(ring, value), value)]

\* Observations of the last check() (history, not program state): its
\* arguments and what it returned.
InitZobs ==
    [called |-> FALSE, key |-> "iot:temperature:d1", value |-> 0, result |-> NoEvent]

\* ZScoreDetector.__init__: a defaultdict, a key's ring is empty until used.
InitAnomaly ==
    /\ windows = [k \in AnomalyKeys |-> <<>>]
    /\ zobs = InitZobs

Outliers(w) == Cardinality({i \in 1..Len(w) : w[i] # 0})

Check ==
    \E key \in AnomalyKeys, value \in AnomalyValues :
        LET c == check(windows[key], value) IN
        /\ Outliers(c.window) <= MaxOutliers
        /\ windows' = [windows EXCEPT ![key] = c.window]
        /\ zobs' = [called |-> TRUE, key |-> key, value |-> value,
                    result |-> c.result]

AnomalyNext ==
    \/ Check /\ UNCHANGED <<breakerVars, consumerVars, writerVars, aggVars, threadVars, wsVars, procVars, iotVars, alertVars, flushVars, trendVars, readerVars, wthreadVars, tickVars, loopVars>>

(***************************************************************************)
(* processor/trend.py : TrendAnalyzer                                      *)
(* The regression is computed on binary floats with TrendMantissaBits      *)
(* significant bits, rounded to nearest, ties to even, and a smallest      *)
(* spacing of 2^-TrendFractionBits. A float is written as its number of    *)
(* such units, so that TrendOne is 1.0. The thresholds become: abs(x) <    *)
(* 1e-10 iff x = 0, x < 0.1 iff 10 * x < TrendOne, x > 0.001 iff           *)
(* 1000 * x > TrendOne.                                                    *)
(***************************************************************************)
TrendOne == 2 ^ TrendFractionBits

fabs(a) == IF a < 0 THEN -a ELSE a

RECURSIVE trend_ulp(_)
trend_ulp(q) == IF q < 2 ^ TrendMantissaBits THEN 1 ELSE 2 * trend_ulp(q \div 2)

\* The float nearest to n/d units, n >= 0, d > 0.
trend_round(n, d) ==
    LET u == trend_ulp(n \div d)
        lo == (n \div (d * u)) * u
        hi == lo + u IN
    IF 2 * n < (lo + hi) * d THEN lo
    ELSE IF 2 * n > (lo + hi) * d THEN hi
    ELSE IF (lo \div u) % 2 = 0 THEN lo ELSE hi

\* The float nearest to n/d units, d # 0.
fl(n, d) ==
    IF d < 0 THEN (IF n > 0 THEN -trend_round(n, -d) ELSE trend_round(-n, -d))
    ELSE (IF n < 0 THEN -trend_round(-n, d) ELSE trend_round(n, d))

fadd(a, b) == fl(a + b, 1)
fsub(a, b) == fl(a - b, 1)
fmul(a, b) == fl(a * b, TrendOne)
fdiv(a, b) == fl(a * TrendOne, b)

\* float(n) of an int.
ffloat(n) == fl(n * TrendOne, 1)

\* sum(...) of signed floats: a left-to-right fold started from 0.
RECURSIVE fsum_signed(_, _)
fsum_signed(values, acc) ==
    IF values = <<>> THEN acc ELSE fsum_signed(Tail(values), fadd(acc, values[1]))

\* round(x, digits) of a float x >= 0 or x < 0, as a number of 10^-digits:
\* the nearest one, ties to even (a float is an exact binary fraction).
round_half_even(n, d) ==
    LET q == n \div d
        rem == n % d IN
    IF 2 * rem < d THEN q
    ELSE IF 2 * rem > d THEN q + 1
    ELSE IF q % 2 = 0 THEN q ELSE q + 1

round_digits(x, digits) ==
    IF x < 0 THEN -round_half_even((-x) * 10 ^ digits, TrendOne)
    ELSE round_half_even(x * 10 ^ digits, TrendOne)

TrendKeys == {"iot:temperature:d1"}

\* The values fed: a baseline, 1.125, and two other values, 1.0 and 1.3125.
TrendBaseline == 72
TrendValues == {TrendBaseline, 64, 84}

\* The timestamp of the i-th event of a key: 0.0, 1.0, 2.0, ...
TrendTimes == [i \in 1..MaxTrendPoints |-> ffloat(i - 1)]

\* slope in 10^-6, r_squared and confidence in 10^-4.
NoTrend == [none |-> TRUE, slope |-> 0, r_squared |-> 0, direction |-> "none",
            confidence |-> 0, data_points |-> 0]

\* Lines 73-80 on the unrounded r_squared and slope.
classify(r_squared, slope) ==
    IF 10 * r_squared < TrendOne THEN "stable"
    ELSE IF 1000 * slope > TrendOne THEN "rising"
    ELSE IF 1000 * slope < -TrendOne THEN "falling"
    ELSE "stable"

\* Lines 40-89 of get_trend for a window of at least MIN_POINTS points.
regression(window) ==
    LET n == Len(window)
        xs == [i \in 1..n |-> window[i].t]
        ys == [i \in 1..n |-> window[i].v]
        xs_norm == [i \in 1..n |-> fsub(xs[i], xs[1])]
        sum_x == fsum_signed(xs_norm, 0)
        sum_y == fsum_signed(ys, 0)
        sum_xy == fsum_signed([i \in 1..n |-> fmul(xs_norm[i], ys[i])], 0)
        sum_x2 == fsum_signed([i \in 1..n |-> fmul(xs_norm[i], xs_norm[i])], 0)
        sum_y2 == fsum_signed([i \in 1..n |-> fmul(ys[i], ys[i])], 0)
        denom == fsub(fmul(ffloat(n), sum_x2), fmul(sum_x, sum_x)) IN
    IF fabs(denom) = 0                       \* abs(denom) < 1e-10
    THEN [none |-> FALSE, slope |-> 0, r_squared |-> 0, direction |-> "stable",
          confidence |-> 0, data_points |-> n]
    ELSE LET slope == fdiv(fsub(fmul(ffloat(n), sum_xy), fmul(sum_x, sum_y)), denom)
             ss_tot == fsub(sum_y2, fdiv(fmul(sum_y, sum_y), ffloat(n)))
             intercept == fdiv(fsub(sum_y, fmul(slope, sum_x)), ffloat(n))
             residual(i) == fsub(ys[i], fadd(fmul(slope, xs_norm[i]), intercept))
             ss_res == fsum_signed([i \in 1..n |-> fmul(residual(i), residual(i))], 0)
             r_squared == IF fabs(ss_tot) = 0         \* abs(ss_tot) < 1e-10
                          THEN 0
                          ELSE LET r == fsub(TrendOne, fdiv(ss_res, ss_tot)) IN
                               IF r > 0 THEN r ELSE 0 IN   \* max(0.0, ...)
         [none |-> FALSE, slope |-> round_digits(slope, 6),
          r_squared |-> round_digits(r_squared, 4),
          direction |-> classify(r_squared, slope),
          confidence |-> round_digits(r_squared, 4), data_points |-> n]

\* get_trend(key) on the dict windows.
get_trend(windows_, key) ==
    IF key \notin DOMAIN windows_ THEN NoTrend
    ELSE IF Len(windows_[key]) < MIN_POINTS THEN NoTrend
    ELSE regression(windows_[key])

\* Observations of the last get_trend() (history, not program state).
InitTrobs == [called |-> FALSE, key |-> "iot:temperature:d1", result |-> NoTrend]

\* TrendAnalyzer.__init__: no key has a buffer.
InitTrend ==
    /\ buffers = <<>>
    /\ trobs = InitTrobs

\* TrendAnalyzer.add(key, value, timestamp)
TrendAdd ==
    \E key \in TrendKeys, value \in TrendValues :
        LET w == IF key \in DOMAIN buffers THEN buffers[key] ELSE <<>>
            p == Append(w, [t |-> TrendTimes[Len(w) + 1], v |-> value]) IN
        /\ Len(w) < MaxTrendPoints
        /\ Cardinality({i \in 1..Len(p) : p[i].v # TrendBaseline}) <= MaxOutliers
        /\ buffers' = [k \in DOMAIN buffers \cup {key} |->
                          IF k = key THEN p ELSE buffers[k]]
        /\ trobs' = InitTrobs

\* get_trend(key), for a key that was fed or one that never was.
GetTrend ==
    \E key \in TrendKeys \cup {"unknown"} :
        /\ trobs' = [called |-> TRUE, key |-> key,
                     result |-> get_trend(buffers, key)]
        /\ UNCHANGED buffers

TrendNext ==
    \/ TrendAdd /\ UNCHANGED <<breakerVars, consumerVars, writerVars, aggVars, threadVars, wsVars, procVars, iotVars, alertVars, flushVars, anomalyVars, readerVars, wthreadVars, tickVars, loopVars>>
    \/ GetTrend /\ UNCHANGED <<breakerVars, consumerVars, writerVars, aggVars, threadVars, wsVars, procVars, iotVars, alertVars, flushVars, anomalyVars, readerVars, wthreadVars, tickVars, loopVars>>

(***************************************************************************)
(* storage/time_series.py : TimeSeriesReader.get_range                     *)
(* The sorted set of one key: its members are the JSON payloads of the     *)
(* records 1..MaxStored, each with one score.                              *)
(***************************************************************************)
Members == 1..MaxStored
Scores == 1..MaxScore

\* json.loads(payload) of a payload written by json_dumps.
json_loads(payload) == payload[2]

\* The members of zset with a score in [lo, hi].
InRange(zset, lo, hi) ==
    {m \in DOMAIN zset : zset[m] >= lo /\ zset[m] <= hi}

\* r.zrangebyscore(ts_key, start, end, withscores=True): the (payload,
\* score) pairs in the range, by ascending score, members of one score in
\* the order of their payloads.
zrangebyscore(zset, lo, hi) ==
    SortSeq([i \in 1..Cardinality(InRange(zset, lo, hi)) |->
                LET m == CHOOSE m \in InRange(zset, lo, hi) :
                        Cardinality({k \in InRange(zset, lo, hi) : k < m}) = i - 1 IN
                [payload |-> json_dumps(m), score |-> zset[m]]],
            LAMBDA a, b : a.score < b.score
                          \/ (a.score = b.score /\ json_loads(a.payload) < json_loads(b.payload)))

\* results[::step]: the elements at the indices 0, step, 2 * step, ...
slice_step(results, step) ==
    [i \in 1..((Len(results) + step - 1) \div step) |-> results[(i - 1) * step + 1]]

\* _query(r), lines 63-74.
get_range(zset, start, end, max_points) ==
    LET raw == zrangebyscore(zset, start, end)
        results == [i \in 1..Len(raw) |->
                       [data |-> json_loads(raw[i].payload),
                        _timestamp |-> raw[i].score]] IN
    IF Len(results) > max_points
    THEN slice_step(results, Len(results) \div max_points)
    ELSE results

\* Observations of the last get_range() (history, not program state).
InitRobs ==
    [called |-> FALSE, start |-> 0, end |-> 0, max_points |-> 1, result |-> <<>>]

\* Nothing is stored yet.
InitReader ==
    /\ series = <<>>
    /\ robs = InitRobs

\* The writer's ZADD of record m at score s reaches the store: a member
\* that is already there gets the new score.
StoreZadd ==
    \E m \in Members, s \in Scores :
        /\ series' = [k \in DOMAIN series \cup {m} |-> IF k = m THEN s ELSE series[k]]
        /\ robs' = InitRobs

\* get_range(key, start, end, max_points)
GetRange ==
    \E start \in Scores, end \in Scores, max_points \in 1..MaxPointsArg :
        /\ robs' = [called |-> TRUE, start |-> start, end |-> end,
                    max_points |-> max_points,
                    result |-> get_range(series, start, end, max_points)]
        /\ UNCHANGED series

ReaderNext ==
    \/ StoreZadd /\ UNCHANGED <<breakerVars, consumerVars, writerVars, aggVars, threadVars, wsVars, procVars, iotVars, alertVars, flushVars, anomalyVars, trendVars, wthreadVars, tickVars, loopVars>>
    \/ GetRange /\ UNCHANGED <<breakerVars, consumerVars, writerVars, aggVars, threadVars, wsVars, procVars, iotVars, alertVars, flushVars, anomalyVars, trendVars, wthreadVars, tickVars, loopVars>>

(***************************************************************************)
(* storage/time_series.py : one TimeSeriesWriter used by two threads.      *)
(* The consumer thread calls write() (StreamProcessor._process_iot and     *)
(* _process_activity), the flush thread calls flush() (_flush_windows).    *)
(* The writer takes no lock: the threads interleave between the statements *)
(* of write() and flush() and between the iterations of flush()'s loop.    *)
(* The n-th write() writes the record n. The trim commands of the          *)
(* pipeline, which carry no record, are left out.                          *)
(***************************************************************************)
WriterThreads == {"consumer", "flush"}

WriterRecord(n) == [key |-> "iot:temperature:d1", timestamp |-> 1, data |-> n]

\* The records of a pending list, and those a pipeline's ZADDs carry.
RecordsOf(p) == {p[i].data : i \in 1..Len(p)}
RecordsIn(pipe) == {json_loads(pipe[i].member) : i \in 1..Len(pipe)}

NoFlushLocals == [i |-> 0, pipe |-> <<>>]

\* Observations of the shared writer (history, not program state):
\*   accepted  write() calls that have appended their record
\*   sent      the records of the pipelines executed so far
\*   cleared   the records removed from the pending list by a clear()
\*   overlap   two flush() calls have been in progress at once
InitWtobs == [accepted |-> 0, sent |-> {}, cleared |-> {}, overlap |-> FALSE]

InitWriterThreads ==
    /\ wpc = [t \in WriterThreads |-> "idle"]
    /\ wloc = [t \in WriterThreads |-> NoFlushLocals]
    /\ wtobs = InitWtobs

\* write(), line 23: self._pending.append((key, timestamp, data))
write_append ==
    /\ wpc["consumer"] = "idle"
    /\ wtobs.accepted < MaxWrites
    /\ pending' = Append(pending, WriterRecord(wtobs.accepted + 1))
    /\ wpc' = [wpc EXCEPT !["consumer"] = "test"]
    /\ wtobs' = [wtobs EXCEPT !.accepted = @ + 1]
    /\ UNCHANGED <<wobs, wloc>>

\* write(), lines 24-25: if len(self._pending) >= self._batch_size: self.flush()
write_test ==
    /\ wpc["consumer"] = "test"
    /\ wpc' = [wpc EXCEPT !["consumer"] =
                  IF Len(pending) >= pipeline_batch THEN "enter" ELSE "idle"]
    /\ UNCHANGED <<pending, wobs, wloc, wtobs>>

\* _flush_windows, line 129: self._ts_writer.flush()
flush_call ==
    /\ wpc["flush"] = "idle"
    /\ wpc' = [wpc EXCEPT !["flush"] = "enter"]
    /\ UNCHANGED <<pending, wobs, wloc, wtobs>>

\* flush(), lines 29-33: return if nothing is pending, else a new pipeline.
flush_enter(t) ==
    /\ wpc[t] = "enter"
    /\ IF pending = <<>>
       THEN /\ wpc' = [wpc EXCEPT ![t] = "idle"]
            /\ UNCHANGED <<wloc, wtobs>>
       ELSE /\ wpc' = [wpc EXCEPT ![t] = "loop"]
            /\ wloc' = [wloc EXCEPT ![t] = NoFlushLocals]
            /\ wtobs' = [wtobs EXCEPT !.overlap =
                            @ \/ \E u \in WriterThreads \ {t} :
                                    wpc[u] \in {"loop", "execute", "clear"}]
    /\ UNCHANGED <<pending, wobs>>

\* flush(), lines 34-38: one step of `for ... in self._pending`. The list
\* iterator yields the element at its index as long as the index is below
\* the list's current length.
flush_loop(t) ==
    /\ wpc[t] = "loop"
    /\ IF wloc[t].i < Len(pending)
       THEN LET rec == pending[wloc[t].i + 1] IN
            /\ wloc' = [wloc EXCEPT
                  ![t] = [i |-> @.i + 1,
                          pipe |-> Append(@.pipe, zadd(ts_key(rec.key),
                                                       json_dumps(rec.data),
                                                       rec.timestamp))]]
            /\ UNCHANGED wpc
       ELSE /\ wpc' = [wpc EXCEPT ![t] = "execute"]
            /\ UNCHANGED wloc
    /\ UNCHANGED <<pending, wobs, wtobs>>

\* flush(), line 49: pipe.execute() doing x; its exception leaves flush().
flush_execute(t, x) ==
    /\ wpc[t] = "execute"
    /\ IF x = "ok"
       THEN /\ wpc' = [wpc EXCEPT ![t] = "clear"]
            /\ wtobs' = [wtobs EXCEPT !.sent = @ \cup RecordsIn(wloc[t].pipe)]
       ELSE /\ wpc' = [wpc EXCEPT ![t] = "idle"]
            /\ UNCHANGED wtobs
    /\ UNCHANGED <<pending, wobs, wloc>>

\* flush(), line 50: self._pending.clear()
flush_clear(t) ==
    /\ wpc[t] = "clear"
    /\ pending' = <<>>
    /\ wpc' = [wpc EXCEPT ![t] = "idle"]
    /\ wtobs' = [wtobs EXCEPT !.cleared = @ \cup RecordsOf(pending)]
    /\ UNCHANGED <<wobs, wloc>>

WriterFlushEnter == \E t \in WriterThreads : flush_enter(t)
WriterFlushLoop == \E t \in WriterThreads : flush_loop(t)
WriterFlushExecute ==
    \E t \in WriterThreads, x \in ExecuteOutcomes : flush_execute(t, x)
WriterFlushClear == \E t \in WriterThreads : flush_clear(t)

WriterThreadsNext ==
    \/ write_append /\ UNCHANGED <<breakerVars, consumerVars, aggVars, threadVars, wsVars, procVars, iotVars, alertVars, flushVars, anomalyVars, trendVars, readerVars, tickVars, loopVars>>
    \/ write_test /\ UNCHANGED <<breakerVars, consumerVars, aggVars, threadVars, wsVars, procVars, iotVars, alertVars, flushVars, anomalyVars, trendVars, readerVars, tickVars, loopVars>>
    \/ flush_call /\ UNCHANGED <<breakerVars, consumerVars, aggVars, threadVars, wsVars, procVars, iotVars, alertVars, flushVars, anomalyVars, trendVars, readerVars, tickVars, loopVars>>
    \/ WriterFlushEnter /\ UNCHANGED <<breakerVars, consumerVars, aggVars, threadVars, wsVars, procVars, iotVars, alertVars, flushVars, anomalyVars, trendVars, readerVars, tickVars, loopVars>>
    \/ WriterFlushLoop /\ UNCHANGED <<breakerVars, consumerVars, aggVars, threadVars, wsVars, procVars, iotVars, alertVars, flushVars, anomalyVars, trendVars, readerVars, tickVars, loopVars>>
    \/ WriterFlushExecute /\ UNCHANGED <<breakerVars, consumerVars, aggVars, threadVars, wsVars, procVars, iotVars, alertVars, flushVars, anomalyVars, trendVars, readerVars, tickVars, loopVars>>
    \/ WriterFlushClear /\ UNCHANGED <<breakerVars, consumerVars, aggVars, threadVars, wsVars, procVars, iotVars, alertVars, flushVars, anomalyVars, trendVars, readerVars, tickVars, loopVars>>

(***************************************************************************)
(* processor/main.py : StreamProcessor._flush_windows, call by call.       *)
(* The flush thread runs flush_tumbling, get_all_sliding, get_all_trends   *)
(* (a read of the trend windows, which changes nothing here), the writer's *)
(* flush and publish_update; an exception of any of them leaves            *)
(* _flush_windows and is logged by _flush_loop. The consumer thread        *)
(* handles IoT events in between; it is kept out of the flush_tumbling     *)
(* iteration.                                                              *)
(***************************************************************************)
\* The samples the results rs aggregate.
ResultIds(rs) == UNION {rs[i].ids : i \in 1..Len(rs)}

\* The flush thread between two ticks, and its observations (history):
\*   tumbling_results  the local variable of the tick in progress
\*   returned          the samples flush_tumbling has returned so far
\*   published         the samples of the "tumbling" lists published so far
\*   raised            _flush_windows calls that raised after flush_tumbling
InitTick ==
    /\ tick_pc = "idle"
    /\ tick = [tumbling_results |-> <<>>, returned |-> {}, published |-> {},
               raised |-> FALSE]

\* _process_iot, lines 72-76: aggregator.add and ts_writer.write of one
\* event stamped with the current time; x is what the pipe.execute() of the
\* write's flush does, if the write fills the batch.
process_iot_event(key, value, x) ==
    LET p == Append(pending, [key |-> key, timestamp |-> wall, data |-> "r1"]) IN
    /\ fiter.pc = "idle"
    /\ add(key, value, wall)
    /\ IF Len(p) >= pipeline_batch
       THEN /\ pending' = flush(p, x).pending
            /\ wobs' = flush(p, x).wobs
       ELSE /\ x = "ok"
            /\ pending' = p
            /\ wobs' = InitWobs
    /\ UNCHANGED <<tick_pc, tick>>

ProcessIotEvent ==
    \E key \in AggKeys, value \in SampleValues, x \in ExecuteOutcomes :
        process_iot_event(key, value, x)

\* _flush_windows, line 124: flush_tumbling() is entered.
Tick_begin ==
    /\ tick_pc = "idle"
    /\ FlushTumbling_begin
    /\ tick_pc' = "flush_tumbling"
    /\ UNCHANGED <<tick, pending, wobs>>

\* Line 124: one step of flush_tumbling(), which is at its for statement
\* ("flush_tumbling") or between window.compute and window.reset
\* ("window.reset"); when it returns, its results are bound to
\* tumbling_results; its RuntimeError leaves _flush_windows.
Tick_flush_tumbling ==
    /\ tick_pc \in {"flush_tumbling", "window.reset"}
    /\ FlushTumbling_next \/ FlushTumbling_reset
    /\ IF fiter'.pc = "reset"
       THEN /\ tick_pc' = "window.reset"
            /\ UNCHANGED tick
       ELSE IF fiter'.pc = "next"
       THEN /\ tick_pc' = "flush_tumbling"
            /\ UNCHANGED tick
       ELSE IF aobs'.error # "none"
       THEN /\ tick_pc' = "idle"
            /\ UNCHANGED tick
       ELSE /\ tick_pc' = "get_all_sliding"
            /\ tick' = [tick EXCEPT
                  !.tumbling_results = fiter.results,
                  !.returned = @ \cup ResultIds(fiter.results)]
    /\ UNCHANGED <<pending, wobs>>

\* Lines 125-126: get_all_sliding() and get_all_trends().
Tick_get_all_sliding ==
    /\ tick_pc = "get_all_sliding"
    /\ GetAllSliding
    /\ tick_pc' = "ts_flush"
    /\ UNCHANGED <<tick, pending, wobs>>

\* Line 129: self._ts_writer.flush(); its exception leaves _flush_windows
\* and with it the local tumbling_results.
Tick_ts_flush ==
    /\ tick_pc = "ts_flush"
    /\ Flush
    /\ IF wobs'.returned
       THEN /\ tick_pc' = "publish"
            /\ UNCHANGED tick
       ELSE /\ tick_pc' = "idle"
            /\ tick' = [tick EXCEPT !.tumbling_results = <<>>, !.raised = TRUE]
    /\ UNCHANGED aggVars

\* Lines 132-168: the payload is built from the three result lists and
\* publish_update(dashboard_update) does o.
Tick_publish(o) ==
    /\ tick_pc = "publish"
    /\ tick_pc' = "idle"
    /\ tick' = [tick EXCEPT
          !.tumbling_results = <<>>,
          !.published = IF o = "ok"
                        THEN @ \cup ResultIds(tick.tumbling_results) ELSE @,
          !.raised = @ \/ o # "ok"]
    /\ UNCHANGED <<aggVars, pending, wobs>>

TickPublish == \E o \in CacheOutcomes : Tick_publish(o)

\* The steps in which the store answers.
Tick_ts_flush_ok == Tick_ts_flush /\ wobs'.returned
Tick_publish_ok == Tick_publish("ok")

\* Every step of the flush thread moves it to another position.
TickPositions ==
    {"idle", "flush_tumbling", "window.reset", "get_all_sliding", "ts_flush",
     "publish"}

TickStep == \E p \in TickPositions \ {tick_pc} : tick_pc' = p

TickNext ==
    \/ ProcessIotEvent /\ UNCHANGED <<breakerVars, consumerVars, threadVars, wsVars, procVars, iotVars, alertVars, flushVars, anomalyVars, trendVars, readerVars, wthreadVars, loopVars>>
    \/ Tick_begin /\ UNCHANGED <<breakerVars, consumerVars, threadVars, wsVars, procVars, iotVars, alertVars, flushVars, anomalyVars, trendVars, readerVars, wthreadVars, loopVars>>
    \/ Tick_flush_tumbling /\ UNCHANGED <<breakerVars, consumerVars, threadVars, wsVars, procVars, iotVars, alertVars, flushVars, anomalyVars, trendVars, readerVars, wthreadVars, loopVars>>
    \/ Tick_get_all_sliding /\ UNCHANGED <<breakerVars, consumerVars, threadVars, wsVars, procVars, iotVars, alertVars, flushVars, anomalyVars, trendVars, readerVars, wthreadVars, loopVars>>
    \/ Tick_ts_flush /\ UNCHANGED <<breakerVars, consumerVars, threadVars, wsVars, procVars, iotVars, alertVars, flushVars, anomalyVars, trendVars, readerVars, wthreadVars, loopVars>>
    \/ TickPublish /\ UNCHANGED <<breakerVars, consumerVars, threadVars, wsVars, procVars, iotVars, alertVars, flushVars, anomalyVars, trendVars, readerVars, wthreadVars, loopVars>>

\* The flush thread keeps running (its sleep ends, its calls return), and
\* the store answers again and again.
TickFairness ==
    /\ WF_tick_pc(TickStep)
    /\ SF_<<writerVars, tickVars>>(Tick_ts_flush_ok)
    /\ SF_tickVars(Tick_publish_ok)

(***************************************************************************)
(* api/main.py, api/routers/websocket.py, api/ws_manager.py : the event    *)
(* loop of the API process. One thread runs the coroutines: the bridge     *)
(* task created by lifespan (PubSubListener.run) and the websocket_live    *)
(* routes; a coroutine keeps the thread until it awaits. The Redis client  *)
(* is the synchronous one (redis.Redis), so `for message in                *)
(* pubsub.listen()` waits for the next message inside the loop's thread.   *)
(***************************************************************************)
RequestKinds == {"connect", "subscribe", "disconnect"}

\* The loop after lifespan has created the bridge task, and its
\* observations (history): the requests that have arrived and those a
\* route has processed, and the messages listen() has yielded.
InitLoop ==
    /\ loop_task = "none"
    /\ bridge_pc = "created"
    /\ requests = <<>>
    /\ lobs = [received |-> 0, processed |-> 0, messages |-> 0]

\* A subscriber's request reaches the server: a new connection, or a
\* subscribe message or the close of a connection that exists. A
\* subscriber waits for the answer before its next request.
RequestArrives ==
    /\ lobs.received < MaxRequests
    /\ \E ws \in WebSockets, kind \in RequestKinds :
          /\ \A i \in 1..Len(requests) : requests[i].ws # ws
          /\ (kind = "connect") = (ws \notin DOMAIN connections)
          /\ requests' = Append(requests, [ws |-> ws, kind |-> kind])
    /\ lobs' = [lobs EXCEPT !.received = @ + 1]
    /\ UNCHANGED <<loop_task, bridge_pc, wsVars>>

\* The free loop runs the route of the oldest request up to its next await:
\* websocket.py lines 22-23 (connect), 26-30 (receive_text, update_filters)
\* or 35-36 (WebSocketDisconnect, disconnect).
Loop_route ==
    /\ loop_task = "none"
    /\ requests # <<>>
    /\ LET r == Head(requests) IN
       \/ r.kind = "connect" /\ connect(r.ws)
       \/ r.kind = "subscribe"
            /\ \E channels \in FilterChoices : update_filters(r.ws, channels)
       \/ r.kind = "disconnect" /\ disconnect(r.ws)
    /\ requests' = Tail(requests)
    /\ lobs' = [lobs EXCEPT !.processed = @ + 1]
    /\ UNCHANGED <<loop_task, bridge_pc>>

\* The free loop runs the bridge task, which is new or whose sleep is over:
\* ws_manager.py lines 91-98, up to the wait inside pubsub.listen(). The
\* bridge does not await there: it keeps the loop's thread.
Loop_bridge ==
    /\ loop_task = "none"
    /\ bridge_pc \in {"created", "sleep(0)", "sleep(2)"}
    /\ loop_task' = "bridge"
    /\ bridge_pc' = "listen"
    /\ UNCHANGED <<requests, lobs, wsVars>>

\* Lines 98-108: listen() yields a message. The subscribe confirmation and
\* a message that is not JSON are skipped (continue) and the bridge waits
\* for the next one; a JSON message is broadcast and the bridge awaits
\* asyncio.sleep(0), which frees the loop.
Bridge_message ==
    /\ loop_task = "bridge"
    /\ bridge_pc = "listen"
    /\ lobs.messages < MaxBridgeMessages
    /\ \E message \in PubSubMessages :
          /\ PubSubListener_message(message)
          /\ IF message.type = "message" /\ message.json
             THEN loop_task' = "none" /\ bridge_pc' = "sleep(0)"
             ELSE UNCHANGED <<loop_task, bridge_pc>>
    /\ lobs' = [lobs EXCEPT !.messages = @ + 1]
    /\ UNCHANGED requests

\* Lines 110-112: listen() raises (the connection is lost); the bridge logs
\* and awaits asyncio.sleep(2), which frees the loop.
Bridge_error ==
    /\ loop_task = "bridge"
    /\ bridge_pc = "listen"
    /\ loop_task' = "none"
    /\ bridge_pc' = "sleep(2)"
    /\ UNCHANGED <<requests, lobs, wsVars>>

LoopNext ==
    \/ RequestArrives /\ UNCHANGED <<breakerVars, consumerVars, writerVars, aggVars, threadVars, procVars, iotVars, alertVars, flushVars, anomalyVars, trendVars, readerVars, wthreadVars, tickVars>>
    \/ Loop_route /\ UNCHANGED <<breakerVars, consumerVars, writerVars, aggVars, threadVars, procVars, iotVars, alertVars, flushVars, anomalyVars, trendVars, readerVars, wthreadVars, tickVars>>
    \/ Loop_bridge /\ UNCHANGED <<breakerVars, consumerVars, writerVars, aggVars, threadVars, procVars, iotVars, alertVars, flushVars, anomalyVars, trendVars, readerVars, wthreadVars, tickVars>>
    \/ Bridge_message /\ UNCHANGED <<breakerVars, consumerVars, writerVars, aggVars, threadVars, procVars, iotVars, alertVars, flushVars, anomalyVars, trendVars, readerVars, wthreadVars, tickVars>>
    \/ Bridge_error /\ UNCHANGED <<breakerVars, consumerVars, writerVars, aggVars, threadVars, procVars, iotVars, alertVars, flushVars, anomalyVars, trendVars, readerVars, wthreadVars, tickVars>>

\* The loop runs every coroutine that is ready whenever it is free; when
\* pub/sub messages arrive and whether the connection fails is up to the
\* environment.
LoopFairness ==
    /\ SF_<<loopVars, wsVars>>(Loop_route)
    /\ SF_loopVars(Loop_bridge)

Init ==
    /\ InitBreaker /\ InitConsumer /\ InitWriter /\ InitAggregator
    /\ InitThreads
    /\ InitWs
    /\ InitProcessor
    /\ InitIot
    /\ InitAlerts
    /\ InitFlushLoop
    /\ InitAnomaly
    /\ InitTrend
    /\ InitReader
    /\ InitWriterThreads
    /\ InitTick
    /\ InitLoop

SpecBreaker == Init /\ [][BreakerNext]_vars

SpecBreakerMethods == Init /\ [][BreakerMethodsNext]_vars

SpecConsumer == Init /\ [][ConsumerNext]_vars

\* run() keeps running while it has a step to take: poll() returns within
\* its timeout, the handler, commit() and close() return.
SpecConsumerFair ==
    Init /\ [][ConsumerNext]_vars /\ WF_consumerVars(ConsumerRun)

SpecWriter == Init /\ [][WriterNext]_vars

SpecAggregator == Init /\ [][AggregatorNext]_vars

SpecBreakerThreads == Init /\ [][BreakerThreadsNext]_vars

SpecWs == Init /\ [][WsNext]_vars

SpecProcessor == Init /\ [][ProcessorNext]_vars

SpecIot == Init /\ [][IotNext]_vars

SpecStore == Init /\ [][StoreNext]_vars

SpecAlerts == Init /\ [][AlertsNext]_vars

SpecFlushLoop ==
    Init /\ [][FlushLoopNext]_vars /\ WF_flushVars(FlushThread)

SpecAnomaly == Init /\ [][AnomalyNext]_vars

SpecTrend == Init /\ [][TrendNext]_vars

SpecReader == Init /\ [][ReaderNext]_vars

SpecWriterThreads == Init /\ [][WriterThreadsNext]_vars

SpecTick == Init /\ [][TickNext]_vars /\ TickFairness

SpecLoop == Init /\ [][LoopNext]_vars /\ LoopFairness

SpecSliding == Init /\ [][SlidingNext]_vars

SpecAggregatorClock == Init /\ [][AggregatorClockNext]_vars

SpecAggregatorThreads == Init /\ [][AggregatorThreadsNext]_vars

(***************************************************************************)
(* Claims about the circuit breaker and execute_with_retry.                *)
(***************************************************************************)
Last(s) == s[Len(s)]

\* The call in progress or last made was admitted by the breaker.
Admitted == call.result \notin {None, "CircuitOpenError"}
\* ... and has returned or raised.
Finished == Admitted /\ rpc = "idle"

\* C3: once record_failure has been called failure_threshold or more times with
\* no record_success in between, can_execute() returns false and leaves the
\* state open while now - last_failure_time <= recovery_timeout, and returns
\* true with the breaker in half_open once the timeout has elapsed (moving it
\* there from open).
C3_OpenUntilTimeout ==
    (call.can.called /\ call.can.tripped) =>
        IF call.can.elapsed
        THEN /\ call.can.ret
             /\ call.can.pre_state \in {"open", "half_open"}
             /\ call.can.post_state = "half_open"
        ELSE /\ ~call.can.ret
             /\ call.can.pre_state = "open"
             /\ call.can.post_state = "open"

\* C3 witness: a can_execute() of a tripped breaker after the timeout, moving
\* it from open to half_open.
C3_Witness ==
    /\ call.can.called
    /\ call.can.tripped /\ call.can.elapsed /\ call.can.ret
    /\ call.can.pre_state = "open" /\ call.can.post_state = "half_open"

\* C4 (as claimed): every change of the breaker state is one of the edges
\* closed->open, open->half_open, half_open->closed, half_open->open.
BreakerEdges ==
    {<<"closed", "open">>, <<"open", "half_open">>,
     <<"half_open", "closed">>, <<"half_open", "open">>}

C4_OnlyFourEdges ==
    [][circuit'.state # circuit.state =>
          <<circuit.state, circuit'.state>> \in BreakerEdges]_vars

\* C5: a call made while can_execute() is false raises CircuitOpenError at
\* once: func is not invoked, nothing sleeps, nothing is recorded and the
\* breaker fields are those the call found.
C5_RejectedCallChangesNothing ==
    /\ (call.can.called /\ ~call.can.ret) => call.result = "CircuitOpenError"
    /\ call.result = "CircuitOpenError" =>
          /\ rpc = "idle"
          /\ call.op_calls = 0
          /\ call.sleeps = <<>>
          /\ call.recorded = 0 /\ call.succeeded = 0
          /\ Fields(circuit) = call.at_call

\* C5 witness: a call rejected by the open breaker some time after the last failure.
C5_Witness ==
    /\ call.result = "CircuitOpenError"
    /\ circuit.state = "open"
    /\ now > circuit.last_failure_time

\* The parts of C6 that do not depend on which attempts count as failures
\* recorded: at most n invocations, stop at the first success, return after
\* record_success, sleep 0.1*2^attempt only before a following attempt, raise
\* the error of the last attempt.
C6_Common ==
    Admitted =>
        /\ call.op_calls <= max_retries
        /\ call.op_calls = Len(call.attempts)
        /\ \A i \in 1..(Len(call.attempts) - 1) : call.attempts[i] # "ok"
        /\ \A i \in 1..Len(call.sleeps) : call.sleeps[i] = 2 ^ (i - 1)
        /\ Len(call.sleeps) = IF rpc = "attempt" THEN call.op_calls
                              ELSE call.op_calls - 1
        /\ rpc = "sleep" => call.op_calls < max_retries
        /\ Finished =>
              /\ call.op_calls >= 1
              /\ IF Last(call.attempts) = "ok"
                 THEN /\ call.result = "returned"
                      /\ call.succeeded = 1
                      /\ circuit.state = "closed" /\ circuit.failure_count = 0
                 ELSE /\ call.result = Last(call.attempts)
                      /\ call.succeeded = 0

\* C6 (as claimed): ... and records exactly one failure per failed attempt.
C6_OneFailurePerFailedAttempt ==
    C6_Common /\ (Admitted => call.recorded = call.failed)

\* C6 (amended): ... and records exactly one failure per attempt that failed
\* with a connection or timeout error; an attempt that raises anything else
\* ends the call with no failure recorded.
C6_OneFailurePerConnectionFailure ==
    /\ C6_Common
    /\ Admitted =>
          /\ call.recorded = call.conn_failed
          /\ call.conn_failed =
                Cardinality({i \in 1..Len(call.attempts) :
                                call.attempts[i] \in {"ConnectionError", "TimeoutError"}})

\* C6 witness: a call with max_retries = 4 whose four attempts all failed, the
\* last with another error than the first.
C6_Witness ==
    /\ Finished
    /\ max_retries = 4
    /\ call.op_calls = 4
    /\ call.attempts[1] = "ConnectionError"
    /\ call.result = "TimeoutError"
    /\ call.sleeps = <<1, 2, 4>>
    /\ call.recorded = 4

\* C7: an attempt that raises something other than a connection or timeout
\* error ends the call at once with that exception, without a sleep or a
\* retry after it, and leaves the breaker fields as the attempt found them.
C7_OtherErrorsBypassBreaker ==
    (call.attempts # <<>> /\ Last(call.attempts) = "ResponseError") =>
        /\ rpc = "idle"
        /\ call.result = "ResponseError"
        /\ Fields(circuit) = call.at_attempt
        /\ Len(call.sleeps) = call.op_calls - 1
        /\ call.recorded = call.op_calls - 1

\* C7 witness: the second attempt of a call raised ResponseError after the
\* first had recorded a failure.
C7_Witness ==
    /\ call.result = "ResponseError"
    /\ call.op_calls = 2
    /\ circuit.failure_count >= 1


(***************************************************************************)
(* Claims about the consumer and the dead letter queue.                    *)
(***************************************************************************)
\* The envelopes on the DLQ topic for the message with identity id.
EnvelopesFor(id) ==
    {i \in 1..Len(dlq_topic) :
        <<dlq_topic[i].original_topic, dlq_topic[i].original_partition,
          dlq_topic[i].original_offset>> = id}

\* C1 (as claimed): every message whose decoding or handler fails is counted
\* in the error counter and gets exactly one DLQ envelope, and run() never
\* ends because of a failing message (it ends only on the stop flag).
C1_FailingMessageNeverStopsConsumer ==
    /\ exit_cause \in {"none", "stop"}
    /\ errors = Cardinality(obs.failures)
    /\ \A f \in obs.failures : Cardinality(EnvelopesFor(f.id)) = 1

\* The handler invocations expected for the messages ms: those whose key decodes.
RECURSIVE InvocationsOf(_)
InvocationsOf(ms) ==
    IF ms = <<>> THEN <<>>
    ELSE (IF Utf8Decodes(ms[1].key) THEN <<MsgId(ms[1])>> ELSE <<>>)
             \o InvocationsOf(Tail(ms))

\* C2 (as claimed): within a batch the handler runs on the messages in
\* arrival order, one at a time; every non-empty batch is committed exactly
\* once, after all its messages were handled or dead-lettered and before the
\* next poll; a commit that raises leaves the consumer running.
C2_OrderedHandlingOneCommitPerBatch ==
    \* handler invocations follow the batch order, one per message reached
    /\ obs.handled = InvocationsOf(SubSeq(batch, 1, idx - 1))
    \* at most one commit per batch, and only after its last message
    /\ obs.commits <= 1
    /\ obs.commits = 1 => idx = Len(batch) + 1
    \* whenever the loop is about to poll again, the batch has its commit
    /\ (cpc = "loop" /\ batch # <<>>) => obs.commits = 1
    \* a commit that raised did not end run()
    /\ exit_cause # "CommitFailedError"
    \* no polled batch is left without its commit when run() has ended
    /\ (cpc = "done" /\ batch # <<>>) => obs.commits = 1

\* C8 (as claimed): a message whose handler raised has exactly one envelope
\* on the DLQ topic, with its topic, partition and offset, the exception's
\* type name, and its original value bytes hex-encoded (not null). Stated for
\* the messages whose DLQ send did not itself fail.
C8_EnvelopeCarriesOriginalBytes ==
    \A f \in obs.failures :
        (f.stage = "handler" /\ f.send = "ok") =>
            /\ Cardinality(EnvelopesFor(f.id)) = 1
            /\ \A i \in EnvelopesFor(f.id) :
                  /\ dlq_topic[i].error_type = f.error
                  /\ dlq_topic[i].original_value_b64 # None
                  /\ dlq_topic[i].original_value_b64 = hex(f.raw)

\* C9 (as claimed): when the DLQ producer's send raises, the consumer goes on:
\* run() is not ended by that exception.
C9_DlqSendFailureIsSwallowed ==
    (\E f \in obs.failures : f.send = "KafkaTimeoutError") =>
        exit_cause \in {"none", "stop"}

(***************************************************************************)
(* Claims about the time-series writer.                                    *)
(***************************************************************************)
SetMax(S) == CHOOSE x \in S : \A y \in S : y <= x

\* C10: after flush() returns the pending buffer is empty; a flush of an empty
\* buffer issues no command; otherwise the one pipeline executed holds one
\* ZADD per pending record (to ts:<key>, score = its timestamp), followed by
\* exactly one ZREMRANGEBYSCORE per distinct key of those records, each with
\* cutoff = largest timestamp of the batch - retention_ms.
C10_FlushPipelineShape ==
    (wobs.flushed /\ wobs.returned) =>
        LET b == wobs.before
            n == Len(b)
            keys == {b[i].key : i \in 1..n}
            cutoff == SetMax({b[i].timestamp : i \in 1..n}) - retention_ms IN
        /\ pending = <<>>
        /\ IF n = 0
           THEN wobs.pipe = <<>> /\ wobs.executes = 0
           ELSE /\ wobs.executes = 1
                /\ Len(wobs.pipe) = n + Cardinality(keys)
                /\ \A i \in 1..n :
                      wobs.pipe[i] = [cmd |-> "ZADD", key |-> <<"ts:", b[i].key>>,
                                      member |-> <<"json", b[i].data>>,
                                      score |-> b[i].timestamp]
                /\ \A k \in keys :
                      Cardinality({j \in (n + 1)..Len(wobs.pipe) :
                          wobs.pipe[j] = [cmd |-> "ZREMRANGEBYSCORE",
                                          key |-> <<"ts:", k>>, member |-> "-inf",
                                          score |-> cutoff]}) = 1

\* C10 witness: a flush that returned after sending three records of two keys,
\* the largest timestamp not being the last.
C10_Witness ==
    /\ wobs.flushed /\ wobs.returned
    /\ Len(wobs.before) = 3
    /\ wobs.before[1].key = wobs.before[3].key
    /\ wobs.before[1].key # wobs.before[2].key
    /\ wobs.before[2].timestamp > wobs.before[3].timestamp
    /\ Len(wobs.pipe) = 5

(***************************************************************************)
(* Claims about the windowed aggregator.                                   *)
(***************************************************************************)
\* The keys of the results rs.
ResultKeys(rs) == {rs[i].key : i \in 1..Len(rs)}

\* C11: with one thread, at any moment between two operations every sample
\* added is in exactly one returned flush_tumbling() result if a flush has
\* returned since its add (the first such flush), and in none otherwise; the
\* last flush returned one result per key that had an add since the flush
\* before it, made of exactly those adds, and none for the other keys, whose
\* windows are still there.
C11_EachSampleInFirstFlushAfterAdd ==
    fiter.pc = "idle" =>
        /\ \A n \in 1..aobs.adds :
              /\ aobs.returned[n] = IF n \in aobs.since THEN 0 ELSE 1
              /\ aobs.log[n].key \in DOMAIN tumbling
        /\ aobs.flushed =>
              /\ ResultKeys(aobs.last) = {aobs.log[n].key : n \in aobs.prev_since}
              /\ Len(aobs.last) = Cardinality(ResultKeys(aobs.last))
              /\ \A i \in 1..Len(aobs.last) :
                    aobs.last[i].ids =
                        {n \in aobs.prev_since : aobs.log[n].key = aobs.last[i].key}

\* C11 witness: a second flush has returned a result for the one key added to
\* since the first flush, and none for the other key, whose window is kept.
C11_Witness ==
    /\ fiter.pc = "idle"
    /\ aobs.flushed
    /\ aobs.adds = 3
    /\ aobs.since = {}
    /\ aobs.prev_since = {3}
    /\ Len(aobs.last) = 1
    /\ Cardinality(DOMAIN tumbling) = 2

\* C12 (as claimed): every entry that contributes to a sliding read made at
\* wall clock w has timestamp >= w - window_sec, and right after add(_, t)
\* no entry of the key's buffer has a timestamp < t - window_sec, whatever
\* the order in which the timestamps arrive.
C12_SlidingHoldsOnlyWindow ==
    /\ aobs.op = "read" =>
          \A i \in 1..Len(aobs.read.results) :
              \A n \in aobs.read.results[i].ids :
                  aobs.log[n].timestamp >= aobs.read.wall - sliding_sec
    /\ aobs.op = "add" =>
          LET last_add == aobs.log[aobs.adds]
              entries == sliding[last_add.key] IN
          \A i \in 1..Len(entries) :
              entries[i].t >= last_add.timestamp - sliding_sec

\* The sample values of the adds ids, and their extremes.
ValuesOf(ids) == {aobs.log[n].value : n \in ids}
SetMin(S) == CHOOSE x \in S : \A y \in S : x <= y
SetMaxOf(S) == CHOOSE x \in S : \A y \in S : y <= x

\* The samples of the adds ids, in a sequence sorted ascending.
RECURSIVE SortedSamples(_)
SortedSamples(ids) ==
    IF ids = {} THEN <<>>
    ELSE LET n == CHOOSE m \in ids :
                     \A k \in ids : aobs.log[m].value <= aobs.log[k].value IN
         <<aobs.log[n].value>> \o SortedSamples(ids \ {n})

\* The parts of C13 other than min <= avg <= max, for one result r: a result
\* exists only for a non-empty window; count, min, max and p99 as claimed;
\* total and avg are the sum and the quotient in float arithmetic.
C13_Stats(r) ==
    LET samples == SortedSamples(r.ids)
        i == ((r.count * 99) \div 100) - 1 IN
    /\ r.count >= 1
    /\ r.count = Cardinality(r.ids)
    /\ r.total = sum(samples)
    /\ r.avg = float_div(r.total, r.count)
    /\ r.min_val = SetMin(ValuesOf(r.ids))
    /\ r.max_val = SetMaxOf(ValuesOf(r.ids))
    /\ r.p99 = samples[(IF i > 0 THEN i ELSE 0) + 1]

\* The results of the last flush_tumbling() and of the last sliding read.
ResultsSeen ==
    {aobs.last[i] : i \in 1..Len(aobs.last)}
        \cup {aobs.read.results[i] : i \in 1..Len(aobs.read.results)}

\* C13 (as claimed): every result of a tumbling or sliding compute has
\* count = number of samples (at least one), total = their sum, avg =
\* total/count, min and max the smallest and largest sample with
\* min <= avg <= max, and p99 the element at index
\* max(0, floor(count*0.99) - 1) of the sorted samples, which for the
\* samples 1..100 is 99.
C13_ComputeStatistics ==
    /\ [i \in 1..100 |-> i][p99_idx(100) + 1] = 99
    /\ \A r \in ResultsSeen :
          /\ C13_Stats(r)
          /\ r.min_val <= r.avg
          /\ r.avg <= r.max_val

\* Whether the sample n is in its key's tumbling window.
InWindow(n) ==
    LET values == tumbling[aobs.log[n].key] IN
    \E i \in 1..Len(values) : values[i].n = n

\* C14 (as claimed): with add() running concurrently with flush_tumbling(),
\* no flush is disturbed by the insertion of a new key, and whenever no flush
\* is in progress every sample added is either still in its window or in
\* exactly one returned flush result.
C14_FlushAtomicWithAdd ==
    /\ aobs.error = "none"
    /\ fiter.pc = "idle" =>
          \A n \in 1..aobs.adds :
              aobs.returned[n] + (IF InWindow(n) THEN 1 ELSE 0) = 1

(***************************************************************************)
(* Claims about the breaker shared by two threads.                         *)
(***************************************************************************)
\* C15 (as claimed): with two threads in execute_with_retry on one client,
\* failure_count always equals the number of failures recorded since the
\* last recorded success, and whenever no thread is inside record_failure or
\* record_success the breaker is not closed if failure_threshold or more
\* failures have been recorded without a success.
C15_BreakerCountersAtomic ==
    /\ circuit.failure_count = tobs.consec
    /\ ((\A t \in Threads : tpc[t] \notin InsideRecord)
            /\ tobs.consec >= failure_threshold)
          => circuit.state \in {"open", "half_open"}

(***************************************************************************)
(* Claims about the WebSocket manager and the pub/sub bridge.              *)
(***************************************************************************)
\* The last step was a broadcast() call that reached its loop.
Broadcasted == wsobs.last.via \in {"direct", "bridge"}

\* C16: a broadcast dispatches a send to a subscriber exactly if the channel
\* is in the subscriber's filter set and at least throttle_interval has
\* passed since its last_send, and sets last_send to now for exactly those
\* subscribers; a dispatch is at least throttle_interval after the previous
\* dispatch to the same subscriber; the only messages sent are this
\* broadcast's own, to subscribers it dispatched to (nothing skipped earlier
\* is delivered later).
C16_DispatchIffFilterAndThrottle ==
    Broadcasted =>
        LET b == wsobs.last IN
        /\ \A ws \in DOMAIN b.before :
              /\ ws \in b.call.dispatched <=>
                    /\ b.channel \in b.before[ws].channels
                    /\ b.now - b.before[ws].last_send_time >= throttle_ms
              /\ b.call.stamped[ws].last_send_time =
                    IF ws \in b.call.dispatched THEN b.now
                    ELSE b.before[ws].last_send_time
        /\ b.call.dispatched \subseteq DOMAIN b.before
        /\ \A ws \in b.call.dispatched :
              \/ b.prev_dispatch[ws] = -1
              \/ b.now - b.prev_dispatch[ws] >= throttle_ms
        /\ \A m \in b.call.sent :
              /\ m.ws \in b.call.dispatched
              /\ m.channel = b.channel /\ m.data = b.data

\* C16 witness: of two subscribers of the channel, one was sent to exactly
\* throttle_interval after its previous dispatch, the other, sent to less
\* than throttle_interval ago, was skipped.
C16_Witness ==
    /\ Broadcasted
    /\ \E ws, skipped \in DOMAIN wsobs.last.before :
          /\ ws \in wsobs.last.call.dispatched
          /\ wsobs.last.now - wsobs.last.prev_dispatch[ws] = throttle_ms
          /\ skipped \notin wsobs.last.call.dispatched
          /\ wsobs.last.channel \in wsobs.last.before[skipped].channels
          /\ wsobs.last.prev_dispatch[skipped] > 0
          /\ wsobs.last.call.sent # {}

\* C17 (as claimed): a snapshot the bridge forwards is dispatched to every
\* connected subscriber that is not throttled at that moment, whatever its
\* filter set, the default one included.
C17_BridgeReachesEverySubscriber ==
    wsobs.last.via = "bridge" =>
        \A ws \in DOMAIN wsobs.last.before :
            wsobs.last.now - wsobs.last.before[ws].last_send_time >= throttle_ms
                => ws \in wsobs.last.call.dispatched

\* C18: a broadcast in which a subscriber's send fails does not raise, that
\* subscriber is no longer in the connections after it, and every
\* subscriber that was dispatched to and whose socket takes the message has
\* been sent it and is still connected.
C18_FailedSendDropsOnlyThatSubscriber ==
    Broadcasted =>
        LET b == wsobs.last IN
        /\ ~b.call.raised
        /\ \A ws \in b.call.dispatched :
              /\ b.outcome[ws] = "error" => ws \notin DOMAIN b.call.connections
              /\ b.outcome[ws] = "ok" =>
                    /\ [ws |-> ws, channel |-> b.channel, data |-> b.data]
                           \in b.call.sent
                    /\ ws \in DOMAIN b.call.connections
        /\ \A ws \in DOMAIN b.before \ b.call.dispatched :
              ws \in DOMAIN b.call.connections

\* C18 witness: of two subscribers dispatched to, one's send failed and it
\* was dropped, the other was sent the message.
C18_Witness ==
    /\ Broadcasted
    /\ \E failed, other \in wsobs.last.call.dispatched :
          /\ wsobs.last.outcome[failed] = "error"
          /\ failed \notin DOMAIN connections
          /\ wsobs.last.outcome[other] = "ok"
          /\ other \in DOMAIN connections
          /\ \E m \in wsobs.last.call.sent : m.ws = other

C20_ShutdownOrder ==
    ppc # "consumer" =>
        SelectSeq(close_log, LAMBDA step : step # "dlq.close")
            \o shutdown_log
            \o SelectSeq(close_log, LAMBDA step : step = "dlq.close")
          = <<"consumer.close", "flush_running = False", "ts_writer.flush",
              "redis.close", "dlq.close">>

(***************************************************************************)
(* Claims about the circuit breaker's recovery.                            *)
(***************************************************************************)
\* C27: record_success sets failure_count to 0 and the state to closed from
\* any state; after it (in particular after the one successful call made
\* in half_open) the breaker is open again only once failure_threshold
\* consecutive failures have been recorded.
C27_SuccessResetsBreaker ==
    /\ [][call'.succeeded = call.succeeded + 1 =>
             (circuit'.failure_count = 0 /\ circuit'.state = "closed")]_vars
    /\ [](circuit.failure_count = call.consec)
    /\ [](circuit.state = "open" => call.consec >= failure_threshold)

\* A call admitted in half_open has succeeded at its first attempt and left
\* the breaker closed with no failure counted.
C27_Witness ==
    /\ call.can.pre_state = "open"
    /\ call.can.post_state = "half_open"
    /\ call.attempts = <<"ok">>
    /\ call.succeeded = 1
    /\ circuit.state = "closed"
    /\ circuit.failure_count = 0

\* C28 (as claimed): func is invoked only while the breaker is closed or
\* half_open, the second and later attempts of a retried call included.
C28_NoInvocationWhileOpen ==
    [][call'.op_calls = call.op_calls + 1 =>
          circuit.state \in {"closed", "half_open"}]_vars

\* C29 (as claimed): an invocation of func made while the breaker is
\* half_open takes the breaker out of half_open, whatever it raises, so
\* that one stay in half_open sees at most one invocation.
C29_OneTestCallInHalfOpen ==
    [][(circuit.state = "half_open" /\ call'.op_calls = call.op_calls + 1) =>
          circuit'.state # "half_open"]_vars

(***************************************************************************)
(* Claims about the bounds of a window result.                             *)
(***************************************************************************)
\* C30 (as claimed): every AggregateResult returned by flush_tumbling,
\* query_sliding or get_all_sliding has count >= 1 and
\* window_end >= window_start, whatever timestamps the events carry.
C30_ResultWindowBounds ==
    \A r \in ResultsSeen : r.count >= 1 /\ r.window_end >= r.window_start

(***************************************************************************)
(* Claims about the handling of one IoT event.                             *)
(***************************************************************************)
CallsTo(to) ==
    {iobs.calls[i].key : i \in {j \in 1..Len(iobs.calls) : iobs.calls[j].to = to}}

\* C21 (as claimed): every IoT event handled is fed under its agg_key to
\* the aggregator, the anomaly detector and the trend analyzer, and is
\* passed to the time-series writer and to the latest cache (keyed by its
\* device), whether or not an anomaly fired and whether or not a storage
\* operation made for it failed.
C21_EventReachesEverySink ==
    iobs.handled =>
        /\ \A to \in {"aggregator.add", "anomaly.check", "trend.add", "ts_writer.write"} :
              CallsTo(to) = {iot_agg_key(iobs.event)}
        /\ CallsTo("cache.update_iot_latest") = {iobs.event.device_id}

(***************************************************************************)
(* Claims about the way the pipeline reaches the store.                    *)
(***************************************************************************)
\* A step in which the time-series writer's flush executed its pipeline.
FlushRoundTrip ==
    /\ wobs'.flushed /\ wobs'.executes = 1
    /\ wobs' # wobs \/ pending' # pending

\* A step in which a cache operation invoked its function.
CacheRoundTrip == call'.op_calls = call.op_calls + 1

\* C23 (as claimed): every round trip to the store, of a cache operation
\* or of the writer's flush, is made inside execute_with_retry: it is made
\* only when can_execute admits it, its connection or timeout failure is
\* recorded on the breaker and its success resets the breaker.
C23_EveryRoundTripThroughBreaker ==
    /\ [][CacheRoundTrip =>
             /\ call.can.called /\ call.can.ret
             /\ IsConnectionFailure(Last(call'.attempts)) =>
                    circuit'.failure_count = circuit.failure_count + 1
             /\ Last(call'.attempts) = "ok" => circuit'.failure_count = 0]_vars
    /\ [][FlushRoundTrip =>
             /\ can_execute(circuit, now).ret
             /\ ~wobs'.returned =>
                    circuit'.failure_count = circuit.failure_count + 1
             /\ wobs'.returned => circuit'.failure_count = 0]_vars

(***************************************************************************)
(* Claims about the alerts list.                                           *)
(***************************************************************************)
\* The n most recent elements of the sequence s, the newest first.
NewestFirst(s, n) ==
    LET m == IF Len(s) < n THEN Len(s) ELSE n IN
    [i \in 1..m |-> s[Len(s) + 1 - i]]

\* C26: at every moment (so for every reader) the alerts list holds at
\* most 100 entries, and they are the most recently pushed alerts, the
\* newest first.
C26_AlertsBoundedNewestFirst ==
    /\ Len(alerts) <= MAX_ALERTS
    /\ alerts = [i \in 1..Len(alerts) |->
                    json_dumps(NewestFirst(alobs.applied, MAX_ALERTS)[i])]
    /\ Len(alerts) = Len(NewestFirst(alobs.applied, MAX_ALERTS))

\* More alerts than the list holds have been pushed, one of them at a
\* retried attempt, and the list is full.
C26_Witness ==
    /\ Len(alobs.applied) > MAX_ALERTS
    /\ alobs.failures > 0
    /\ Len(alerts) = MAX_ALERTS
    /\ alerts[1] = json_dumps(alobs.pushes)
    /\ rpc = "idle"

(***************************************************************************)
(* Claims about the flush loop.                                            *)
(***************************************************************************)
\* C22: a tick that raises is logged and the thread is back at the loop
\* test; every tick follows a sleep of tumbling_window_sec; the thread
\* ends only once the running flag is cleared; and after a failed tick it
\* ticks again unless the flag is cleared.
C22_FlushLoopSurvivesFailedTick ==
    /\ [][(fobs'.ticks = fobs.ticks + 1 /\ fobs'.last.error # "none") =>
             (fpc' = "test" /\ fobs'.logged = fobs.logged + 1)]_vars
    /\ [][fobs'.ticks = fobs.ticks + 1 =>
             /\ fobs'.at = fobs.clock
             /\ fobs.at >= 0 => fobs'.at - fobs.at = tumbling_window_sec]_vars
    /\ [](fpc = "ended" => ~flush_running)
    /\ \A k \in 1..(MaxTicks - 1) :
          (fobs.ticks = k /\ fobs.last.error # "none")
              ~> (fobs.ticks = k + 1 \/ ~flush_running)

\* The loop has gone through a failed tick and then through another tick,
\* with the flag still set.
C22_Witness ==
    /\ fobs.ticks >= 2
    /\ fobs.logged >= 1
    /\ fobs.logged < fobs.ticks
    /\ fobs.last.error = "none"
    /\ fpc = "test"
    /\ flush_running

(***************************************************************************)
(* Claims about the anomaly detector.                                      *)
(***************************************************************************)
\* The ring of the key last checked: it holds the value just appended.
Ring == windows[zobs.key]

\* C24: check returns no event when the ring holds fewer than 10 values
\* after the append or its standard deviation is below 1e-10; otherwise it
\* returns an event exactly when |z| > threshold, z taken over the ring
\* with the current value in it, and the event is critical exactly when
\* |z| > 4.0, else a warning.
C24_EventIffZAboveThreshold ==
    zobs.called =>
        IF Len(Ring) < MIN_WINDOW_SIZE \/ std_below_epsilon(Ring)
        THEN ~zobs.result.event
        ELSE /\ zobs.result.event <=> abs_z_exceeds(zobs.value, Ring, z_threshold)
             /\ zobs.result.event =>
                   (zobs.result.severity = "critical"
                        <=> abs_z_exceeds(zobs.value, Ring, critical_z))
             /\ zobs.result.event => zobs.result.severity \in {"critical", "warning"}

\* A critical event: one far value in a full ring of baseline values.
C24_Witness ==
    /\ zobs.called
    /\ Len(Ring) = window_size
    /\ zobs.result.event
    /\ zobs.result.severity = "critical"
    /\ zobs.value = -100

(***************************************************************************)
(* Claims about the trend analyzer.                                        *)
(***************************************************************************)
\* The number of points the key last asked about holds.
PointsOf(key) == IF key \in DOMAIN buffers THEN Len(buffers[key]) ELSE 0

\* C25 (as claimed): get_trend returns None exactly when the key holds
\* fewer than 20 points, an unknown key being empty and getting no buffer;
\* otherwise r_squared is in [0, 1] and the direction is stable when
\* r_squared < 0.1, else rising when slope > 0.001, else falling when
\* slope < -0.001, else stable.
C25_TrendResult ==
    /\ "unknown" \notin DOMAIN buffers
    /\ trobs.called =>
          /\ trobs.result.none <=> PointsOf(trobs.key) < MIN_POINTS
          /\ ~trobs.result.none =>
                /\ trobs.result.r_squared >= 0
                /\ trobs.result.r_squared <= 10 ^ 4
                /\ trobs.result.direction =
                      (IF trobs.result.r_squared < 10 ^ 3 THEN "stable"
                       ELSE IF trobs.result.slope > 10 ^ 3 THEN "rising"
                       ELSE IF trobs.result.slope < -(10 ^ 3) THEN "falling"
                       ELSE "stable")

(***************************************************************************)
(* Claims about the aggregator while time passes.                          *)
(***************************************************************************)
\* The adds of key whose timestamp is inside the sliding horizon at time t.
InHorizon(key, t) ==
    {n \in 1..aobs.adds :
        aobs.log[n].key = key /\ aobs.log[n].timestamp >= t - sliding_sec}

\* C31: no step of flush_tumbling() changes a sliding window, and whenever
\* query_sliding(key) is called, after any number of flushes, it returns a
\* result that holds every sample of the key still inside the horizon.
C31_FlushLeavesSlidingWindows ==
    [][/\ fiter' # fiter => sliding' = sliding
       /\ \A key \in AggKeys :
             (query_sliding(key) /\ InHorizon(key, wall) # {}) =>
                 /\ Len(aobs'.read.results) = 1
                 /\ InHorizon(key, wall) \subseteq aobs'.read.results[1].ids]_vars

\* C31 witness: after two flushes have emptied the tumbling windows, a
\* query made when the two samples are at the edge of the horizon returned
\* both.
C31_Witness ==
    /\ aobs.op = "read"
    /\ aobs.flushed
    /\ aobs.since = {}
    /\ aobs.prev_since = {}
    /\ aobs.read.wall = sliding_sec
    /\ Len(aobs.read.results) = 1
    /\ aobs.read.results[1].count = 2
    /\ \A n \in aobs.read.results[1].ids : aobs.log[n].timestamp = 0

\* The earliest timestamp among the adds ids.
FirstAddTime(ids) ==
    CHOOSE t \in {aobs.log[n].timestamp : n \in ids} :
        \A n \in ids : t <= aobs.log[n].timestamp

\* C33 (as claimed): whenever flush_tumbling() computes a window's result,
\* its window_end is the wall clock of that moment and its window_start is
\* the time at which the first sample of the window was added after the
\* preceding flush, or the construction time of the engine, 0, when no flush
\* preceded.
C33_TumblingWindowBounds ==
    [][(fiter.pc = "next" /\ fiter'.pc = "reset"
            /\ Len(fiter'.results) > Len(fiter.results)) =>
          LET r == fiter'.results[Len(fiter'.results)] IN
          /\ r.window_end = wall
          /\ r.window_start = IF aobs.flushed THEN FirstAddTime(r.ids) ELSE 0]_vars

(***************************************************************************)
(* Claims about the writer's buffering.                                    *)
(***************************************************************************)
\* The records write() can be given.
WriterRecords ==
    [key : WriterKeys, timestamp : Timestamps, data : WriterData]

\* The step is a write(r): the pending list, or the list its flush found,
\* is the old list with r appended.
IsWriteOf(r) ==
    \/ pending' = Append(pending, r)
    \/ wobs'.flushed /\ wobs'.before = Append(pending, r)

\* C32: write(r) appends r and enters flush() exactly when the list then
\* holds at least pipeline_batch records; unless that flush raises, fewer
\* than pipeline_batch records are pending after the write, and a flush
\* sends the whole list, r last, in the order of the list, which is the
\* order of the writes.
C32_WriteFlushesAtBatchSize ==
    [][\A r \in WriterRecords :
          IsWriteOf(r) =>
              LET p == Append(pending, r) IN
              /\ wobs'.flushed <=> Len(p) >= pipeline_batch
              /\ ~wobs'.flushed => pending' = p
              /\ wobs'.flushed =>
                    /\ wobs'.executes = 1
                    /\ SubSeq(wobs'.pipe, 1, Len(p)) = flush_zadds(p)
                    /\ pending' = IF wobs'.returned THEN <<>> ELSE p
              /\ (wobs'.flushed => wobs'.returned) =>
                    Len(pending') < pipeline_batch]_vars

\* C32 witness: a write found more than pipeline_batch records pending,
\* left by a failed flush, and its flush sent them all.
C32_Witness ==
    /\ wobs.flushed /\ wobs.returned
    /\ Len(wobs.before) = pipeline_batch + 1
    /\ wobs.before[1] # wobs.before[2]
    /\ pending = <<>>

\* C36: a flush() that executes a pipeline sends every record that was
\* pending, in order (with the record of the write that called it, if one
\* did); if execute() raises, flush() raises and the pending list is still
\* the list it found, so that the next flush sends these records again.
C36_FailedFlushKeepsPending ==
    [][(wobs'.flushed /\ wobs'.executes = 1) =>
          /\ \/ wobs'.before = pending
             \/ \E r \in WriterRecords : wobs'.before = Append(pending, r)
          /\ SubSeq(wobs'.pipe, 1, Len(wobs'.before)) = flush_zadds(wobs'.before)
          /\ pending' = IF wobs'.returned THEN <<>> ELSE wobs'.before]_vars

\* C36 witness: a flush of two different records raised and both are
\* still pending, in their order.
C36_Witness ==
    /\ wobs.flushed /\ ~wobs.returned
    /\ wobs.executes = 1
    /\ Len(pending) = 2
    /\ pending[1].data # pending[2].data
    /\ pending = wobs.before

(***************************************************************************)
(* Claims about the breaker's methods called in any order.                 *)
(***************************************************************************)
\* C40: failure_count is never negative, it is below failure_threshold
\* while the breaker is closed, and at least failure_threshold while it is
\* open or half_open.
C40_CountMatchesState ==
    /\ circuit.failure_count >= 0
    /\ circuit.state = "closed" => circuit.failure_count < failure_threshold
    /\ circuit.state \in {"open", "half_open"} =>
          circuit.failure_count >= failure_threshold

\* C40 witness: a failure recorded while the breaker was open, and the
\* breaker then let a call through after the timeout.
C40_Witness ==
    /\ circuit.state = "half_open"
    /\ circuit.failure_count = failure_threshold + 1
    /\ now - circuit.last_failure_time > recovery_timeout

(***************************************************************************)
(* Claims about the time-series reader.                                    *)
(***************************************************************************)
\* The stored points of the range of the last get_range(), in ascending
\* order of score.
PointsInRange == zrangebyscore(series, robs.start, robs.end)

\* C38 (as claimed): get_range returns at most max_points records; when
\* more than max_points points are stored in the range it returns every
\* floor(n / max_points)-th of them starting with the first, in ascending
\* order of score, and otherwise all of them.
C38_GetRangeDownsamples ==
    robs.called =>
        LET n == Len(PointsInRange)
            step == IF n > robs.max_points THEN n \div robs.max_points ELSE 1
            kept == {i \in 1..n : (i - 1) % step = 0} IN
        /\ Len(robs.result) <= robs.max_points
        /\ Len(robs.result) = Cardinality(kept)
        /\ \A j \in 1..Len(robs.result) :
              /\ robs.result[j]._timestamp = PointsInRange[(j - 1) * step + 1].score
              /\ robs.result[j].data = json_loads(PointsInRange[(j - 1) * step + 1].payload)
        /\ \A j \in 1..(Len(robs.result) - 1) :
              robs.result[j]._timestamp <= robs.result[j + 1]._timestamp

(***************************************************************************)
(* Claims about the processor's delivery.                                  *)
(***************************************************************************)
\* The messages of the current batch whose handler returned.
HandledOk ==
    {i \in 1..Len(batch) :
        /\ \E j \in 1..Len(obs.handled) : obs.handled[j] = MsgId(batch[i])
        /\ \A f \in obs.failures : f.id # MsgId(batch[i])}

\* The raw records their handlers gave to the time-series writer.
BatchRecords ==
    {[key |-> agg_key(batch[i].topic), timestamp |-> batch[i].offset + 1,
      data |-> "r1"] : i \in HandledOk}

\* C35 (as claimed): when the consumer commits the offsets of a batch, no
\* raw record of a message of the batch whose handler returned is still in
\* the writer's pending list.
C35_CommitAfterStore ==
    [][(cpc = "commit" /\ cpc' = "loop") =>
          \A r \in BatchRecords : \A j \in 1..Len(pending) : pending[j] # r]_vars

(***************************************************************************)
(* Claims about the writer shared by the consumer and the flush thread.    *)
(***************************************************************************)
\* C34 (as claimed): every record a clear() has removed from the pending
\* list was in a pipeline executed before, so that every record accepted
\* by write() is either still pending or sent.
C34_NoRecordClearedUnsent ==
    /\ wtobs.cleared \subseteq wtobs.sent
    /\ \A n \in 1..wtobs.accepted : n \in RecordsOf(pending) \/ n \in wtobs.sent

(***************************************************************************)
(* Claims about one tick of the flush thread.                              *)
(***************************************************************************)
\* C37 (as claimed): every sample of a result flush_tumbling has returned
\* is eventually in a published "tumbling" list, whatever raised in between.
C37_ReturnedResultsPublished ==
    \A n \in 1..MaxSamples :
        (n \in tick.returned) ~> (n \in tick.published)

(***************************************************************************)
(* Claims about the API's event loop.                                      *)
(***************************************************************************)
\* C39 (as claimed): every request of a subscriber that has arrived is
\* eventually processed by its route, whether or not a pub/sub message
\* arrives.
C39_RequestsProcessedWhileBridgeWaits ==
    \A n \in 1..MaxRequests :
        (lobs.received >= n) ~> (lobs.processed >= n)

====
